---- MODULE Spec2Model ----
(***************************************************************************)
(* Model of the content acquisition pipeline of backend/enhanced_scraper.py *)
(* and backend/stealth_scraper.py: the fetch strategy chain of             *)
(* enhanced_scrape_url and the bounded crawl loop that follows it.         *)
(* Further down: the content quality analysis of                           *)
(* backend/enhanced_preprocess.py and the token budget selection of        *)
(* backend/generator.py.                                                   *)
(***************************************************************************)
EXTENDS Integers, Sequences, FiniteSets, TLC

(***************************************************************************)
(* Bounds of the model                                                     *)
(***************************************************************************)
MaxPagesBound == 3
MaxDepthBound == 2
MaxLinks == 2
MaxWords == 10
Window == 2
MaxLines == 6
ShortLines == 3
MaxChunkLines == 3

\* the number of jobs started on the server
MaxJobs == 2

\* the number of lines of a scraped page, and of Q&A items generated
MaxPageLines == 2
MaxItems == 1

\* the number of items handed to _deduplicate_questions
MaxDedupItems == 3

\* the number of tokens of a piece, and the largest chunk_size and
\* chunk_overlap handed to _token_chunk_piece
MaxTokens == 4
MaxChunkSize == 3

(***************************************************************************)
(* URLs.  A URL string is modelled by its parts: netloc, path, fragment.   *)
(* Two URL strings are equal iff all the parts are equal.                  *)
(***************************************************************************)
MkUrl(n, p, f) == [netloc |-> n, path |-> p, frag |-> f]

\* the seed URL handed to enhanced_scrape_url
SeedUrl == MkUrl("a.com", 0, "")

\* urlparse(url) of the url argument: the scheme (lower-cased by urlparse)
\* and the netloc; Unparsable stands for a string urlparse raises on
ParsedUrl(s, n) == [scheme |-> s, netloc |-> n]
Unparsable == ParsedUrl("ValueError", "")

\* the parse of the string SeedUrl stands for
ValidSeed == ParsedUrl("https", "a.com")

\* the url arguments tried at the entry of enhanced_scrape_url
SeedCandidates ==
    { ParsedUrl(s, n) : s \in {"http", "https", "ftp", "file", ""},
                        n \in {"a.com", ""} } \cup {Unparsable}

\* _is_valid_url(url), given the parse of url
_is_valid_urlSchemeOnly(p) ==
    p # Unparsable /\ p.scheme \in {"http", "https"}
_is_valid_url(p) ==
    p # Unparsable /\ p.scheme \in {"http", "https"} /\ p.netloc # ""

\* the URLs the modelled web can mention when any page may link anywhere
SmallUrls ==
    { MkUrl("a.com", 0, ""), MkUrl("a.com", 0, "x"),
      MkUrl("a.com", 1, ""), MkUrl("a.com", 1, "x"),
      MkUrl("b.org", 1, "") }

\* the pages of the scenario "seed links to 20 same-domain pages in a cycle"
CyclePaths == 1..20
CycleUrl(i) == MkUrl("a.com", i, "")

\* result of urljoin that is not an http(s) URL (mailto:, javascript:, ...)
NonHttp == [netloc |-> "", path |-> 0 - 1, frag |-> ""]

\* href attribute values found in <a href=...>
AbsHref(u) == [kind |-> "abs", url |-> u, frag |-> ""]
FragHref(f) == [kind |-> "frag", url |-> NonHttp, frag |-> f]
EmptyHref == [kind |-> "empty", url |-> NonHttp, frag |-> ""]
OtherHref == [kind |-> "other", url |-> NonHttp, frag |-> ""]

SmallHrefs ==
    { AbsHref(u) : u \in SmallUrls } \cup {FragHref("x"), EmptyHref, OtherHref}

\* urllib.parse.urljoin(base, href)
urljoin(base, h) ==
    CASE h.kind = "abs" -> h.url
      [] h.kind = "frag" -> [base EXCEPT !.frag = h.frag]
      [] h.kind = "empty" -> base
      [] OTHER -> NonHttp

\* str.startswith('http') on an absolute URL
StartsWithHttp(u) == u # NonHttp

\* urlparse(u).netloc
netloc(u) == u.netloc

\* sequences over S of length at most n
BoundedSeq(S, n) == UNION { [1..k -> S] : k \in 0..n }


(***************************************************************************)
(* Extracted page text.  Only what _validate_content_quality and the       *)
(* stealth scraper's sufficiency test read of a text is kept.              *)
(***************************************************************************)
\* default of the parameter min_content_length
MinContentLength == 200

\* threshold of StealthScraper.scrape_url_async: len(content.strip()) > 100
StealthMinLength == 100

Text(n, i, f, w) ==
    [ striplen |-> n, indicator |-> i, most_common_freq |-> f,
      word_count |-> w ]

\* representative texts: one acceptable at every boundary, one too short by
\* one character, one with a failure phrase, one repetitive, one empty
Contents ==
    { Text(MinContentLength, FALSE, 2, 4),
      Text(MinContentLength - 1, FALSE, 2, 4),
      Text(MinContentLength, TRUE, 2, 4),
      Text(MinContentLength, FALSE, 3, 4),
      Text(0, FALSE, 0, 0) }

\* 'main_content' not in locals()
Unset == Text(0 - 1, FALSE, 0, 0)

\* _validate_content_quality(content, min_length)[0]
\* repetition_ratio > 0.5 is most_common_freq / max(word_count, 1) > 1/2
_validate_content_quality(c, min_length) ==
    /\ ~(c.striplen < min_length)
    /\ ~c.indicator
    /\ ~(2 * c.most_common_freq > (IF c.word_count > 1 THEN c.word_count ELSE 1))

(***************************************************************************)
(* State                                                                   *)
(***************************************************************************)
VARIABLES
    \* parameters of enhanced_scrape_url and the module flag STEALTH_AVAILABLE
    max_pages, max_depth, same_domain_only, validate_quality, crawl,
    STEALTH_AVAILABLE,
    \* the remote site: "any" (a page may show any links) or "cycle20"
    web,
    \* the parse of the url argument
    url,
    \* control position inside enhanced_scrape_url
    pc,
    \* index into wait_strategies of the next rendered attempt
    strategy,
    \* locals of enhanced_scrape_url
    main_content, first_page_links, visited, aggregated_texts, frontier,
    \* observation: strategies invoked so far, in order
    attempts,
    \* observation: outcome of the latest attempt, and the strategies whose
    \* attempt passed validation
    last_outcome, passed,
    \* observation: browsers launched and not closed by a close call
    open_browsers,
    \* observation: URLs requested by the crawl loop
    requested,
    \* observation: the strategy whose attempt returned the links held in
    \* first_page_links ("None" while no attempt has)
    links_from,
    \* observation: URLs whose fetch by the crawl loop raised
    fetch_errors,
    \* ContentQualityAnalyzer.analyze_content_quality: its argument and its
    \* return value
    text, report,
    \* generate_qa / _select_model_and_prompt: len(context), len(query), the
    \* model argument, and the model and prompt the call arrives at
    context_len, query_len, model, decision,
    \* aggressive_clean_text: its argument, the lines it holds after step 6,
    \* and its return value
    cleaning,
    \* enhanced_chunk_text: its arguments, the module global tokenizer, its
    \* control position, the strategies it has called and its return value
    chunking,
    \* api_server.py: the module global jobs, the background tasks that
    \* start_pipeline has added, and the files of the output directory with
    \* the job that wrote each last
    jobs, tasks, files,
    \* run_pipeline: its control position and what it has done so far
    run,
    \* _deduplicate_questions: its argument, its position in the loop over
    \* the items, and the list it builds
    dedup,
    \* _token_chunk_piece: the tokens, the sizes and the loop variables start
    \* and chunks
    window,
    \* generate_qa: its arguments and the prompts it has sent to the model
    sending

vars == << max_pages, max_depth, same_domain_only, validate_quality, crawl,
           STEALTH_AVAILABLE, web, url, pc, strategy, main_content,
           first_page_links, visited, aggregated_texts, frontier, attempts,
           last_outcome, passed, open_browsers, requested, links_from,
           fetch_errors, text, report, context_len, query_len, model,
           decision, cleaning, chunking, jobs, tasks, files, run, dedup,
           window, sending >>

\* the argument and result of the quality analysis
analyzer_vars == << text, report >>

\* what no step of enhanced_scrape_url assigns: its parameters, and the
\* state of the other components
\* the arguments and result of the model and prompt selection
selector_vars == << context_len, query_len, model, decision >>

\* the state of the text pipeline and of the job server
pipeline_vars == << cleaning, chunking, jobs, tasks, files, run, dedup,
                   window, sending >>

params == << max_pages, max_depth, same_domain_only, validate_quality, crawl,
             STEALTH_AVAILABLE, web, url, analyzer_vars, selector_vars,
             pipeline_vars >>

crawl_locals ==
    << visited, aggregated_texts, frontier, requested, fetch_errors >>

seed_links == << first_page_links, links_from >>

wait_strategies == << "networkidle", "domcontentloaded", "load" >>


(***************************************************************************)
(* The remote site                                                         *)
(***************************************************************************)
\* hrefs of the <a> elements of the scenario site: the seed page links to
\* the 20 pages, page i links to the next page of the cycle
CycleHrefs(u) ==
    IF u = SeedUrl
    THEN [ i \in CyclePaths |-> AbsHref(CycleUrl(i)) ]
    ELSE << AbsHref(CycleUrl((u.path % 20) + 1)) >>

\* the possible values of soup.find_all('a', href=True) for the page at u
SiteHrefs(u) ==
    IF web = "cycle20" THEN { CycleHrefs(u) }
    ELSE BoundedSeq(SmallHrefs, MaxLinks)

(***************************************************************************)
(* _extract_links_from_html                                                *)
(***************************************************************************)
RECURSIVE CollectLinks(_, _)
\* the loop over soup.find_all('a', href=True): skip empty and '#...' hrefs,
\* resolve against base_url, keep http(s) results
CollectLinks(hrefs, base_url) ==
    IF hrefs = << >> THEN << >>
    ELSE LET href == Head(hrefs)
             abs_url == urljoin(base_url, href)
             rest == CollectLinks(Tail(hrefs), base_url)
         IN  IF href.kind \in {"empty", "frag"} THEN rest
             ELSE IF StartsWithHttp(abs_url) THEN << abs_url >> \o rest
             ELSE rest

RECURSIVE UniqueLinks(_, _)
\* de-duplicate while preserving order
UniqueLinks(links, seen) ==
    IF links = << >> THEN << >>
    ELSE IF Head(links) \in seen THEN UniqueLinks(Tail(links), seen)
    ELSE << Head(links) >> \o UniqueLinks(Tail(links), seen \cup {Head(links)})

_extract_links_from_html(hrefs, base_url) ==
    UniqueLinks(CollectLinks(hrefs, base_url), {})

(***************************************************************************)
(* One rendered fetch: the exit paths of _playwright_scraper and of        *)
(* StealthScraper.scrape_with_playwright_stealth.                          *)
(*   stage = "launch" : chromium.launch raises, no browser exists          *)
(*   stage = "setup"  : new_context / add_init_script / new_page raises,   *)
(*                      which is before the try block                      *)
(*   stage = "body"   : a step inside the try block raises                 *)
(*   stage = "return" : the try block reaches its return statement         *)
(* context_close_throws: context.close() in the finally block raises       *)
(***************************************************************************)
RenderStages == {"launch", "setup", "body", "return"}

\* whether the finally block is entered
finally_runs(stage) == stage \in {"body", "return"}

\* whether browser.close() is executed: it follows context.close() in the
\* finally block
browser_closed(stage, context_close_throws) ==
    finally_runs(stage) /\ ~context_close_throws

\* whether the call ends with an exception
render_raises(stage, context_close_throws) ==
    stage # "return" \/ (finally_runs(stage) /\ context_close_throws)

\* browsers launched by the call that no close call reached
render_leak(stage, context_close_throws) ==
    IF stage # "launch" /\ ~browser_closed(stage, context_close_throws)
    THEN 1 ELSE 0

(***************************************************************************)
(* scrape_with_undetected_chrome: driver is None until uc.Chrome returns;  *)
(* the finally block quits the driver whenever it exists.                  *)
(***************************************************************************)
ChromeStages == {"launch", "body", "return"}

driver_quit(stage) == stage # "launch"

chrome_leak(stage) == IF stage # "launch" /\ ~driver_quit(stage) THEN 1 ELSE 0

(***************************************************************************)
(* Texts handed to ContentQualityAnalyzer.analyze_content_quality.  Of a   *)
(* text the analysis reads its measures only:                              *)
(*   char_count       len(text)                                            *)
(*   word_count       len(text.split())                                    *)
(*   line_count       number of lines of text.strip() that are not blank   *)
(*   unique_words     number of distinct lower-cased alphabetic words      *)
(*   most_common_freq occurrences of the most frequent alphabetic word     *)
(*   word_chars       sum(len(word) for word in words)                     *)
(***************************************************************************)
PyMax(a, b) == IF a >= b THEN a ELSE b

MkText(c, w, l, u, m, k) ==
    [ char_count |-> c, word_count |-> w, line_count |-> l,
      unique_words |-> u, most_common_freq |-> m, word_chars |-> k ]

\* no call is in progress
NoText == MkText(0 - 1, 0, 0, 0, 0, 0)
NoReport == [ quality_score |-> 0 - 1, issues |-> << >> ]

\* the measures are those of some string: the words are separated by at
\* least one whitespace character, every non-blank line holds a word, and
\* some number of alphabetic words has the given distinct count and maximum
\* frequency
IsText(t) ==
    /\ t.char_count = 0 => t.word_count = 0
    /\ t.word_count = 0 =>
          /\ t.line_count = 0 /\ t.word_chars = 0
          /\ t.unique_words = 0 /\ t.most_common_freq = 0
    /\ t.word_count > 0 =>
          /\ t.line_count \in 1..t.word_count
          /\ t.word_chars >= t.word_count
          /\ t.char_count >= t.word_chars + t.word_count - 1
    /\ \E alpha \in 0..t.word_count :
          /\ (alpha = 0) <=> (t.unique_words = 0)
          /\ (alpha = 0) <=> (t.most_common_freq = 0)
          /\ alpha > 0 =>
                /\ t.unique_words + t.most_common_freq - 1 <= alpha
                /\ alpha <= t.unique_words * t.most_common_freq

\* the texts of w words analysed: the other measures at and next to the
\* thresholds of the analysis
TextsOf(w) ==
    { t \in { MkText(c, w, l, u, m, k * w + d) :
                 c \in {0, 3, 99, 100, 499, 500, 501},
                 l \in {0, 1, 5, 6},
                 u \in 0..w,
                 m \in 0..w,
                 k \in {1, 3, 8},
                 d \in {0 - 1, 0, 1} } : IsText(t) }

\* the texts analysed: every word count up to max_words
Texts(max_words) == UNION { TextsOf(w) : w \in 0..max_words }

\* the quality analysis is not in use
AnalyzerIdle == text = NoText /\ report = NoReport

(***************************************************************************)
(* Strings handed to generate_qa and _select_model_and_prompt.  The        *)
(* selection reads the lengths of context and query only, and cuts the     *)
(* context by slices; a context embedded in a prompt is described by what  *)
(* it keeps of the original: head characters from the start, tail          *)
(* characters from the end, and whether the truncation marker sits between *)
(* them.                                                                   *)
(***************************************************************************)
DEFAULT_MODEL == "openai/gpt-oss-120b"
FALLBACK_MODEL == "meta-llama/llama-4-scout-17b-16e-instruct"
TOKEN_LIMIT_PRIMARY == 3500
TOKEN_LIMIT_FALLBACK == 12000
PROMPT_OVERHEAD_STANDARD == 600
PROMPT_OVERHEAD_INSTRUCT == 400

\* len(_build_prompt_standard("", "")), len(_build_prompt_instruct("", ""))
StandardTemplateLen == 1950
InstructTemplateLen == 1042

\* len("\n\n[... content truncated ...]\n\n")
MarkerLen == 31

\* len of the two system messages
SystemStandardLen == 38
SystemInstructLen == 74

Kept(h, mk, t) == [ head |-> h, marker |-> mk, tail |-> t ]

\* the whole context of n characters
Full(n) == Kept(n, FALSE, 0)

\* no call is in progress
NoDecision ==
    [ via |-> "None", model |-> "None", template |-> "None",
      kept |-> Full(0), context_tokens |-> 0, query_tokens |-> 0,
      final_tokens |-> 0, total_input_tokens |-> 0 ]

\* the model and prompt selection is not in use
SelectorIdle ==
    /\ context_len = 0 /\ query_len = 0 /\ model = "None"
    /\ decision = NoDecision

(***************************************************************************)
(* The text pipeline (aggressive_clean_text, enhanced_chunk_text,          *)
(* run_pipeline) and the job server while they are not in use              *)
(***************************************************************************)
NoCleaning == [ pc |-> "None", text |-> << >>, final_lines |-> << >>,
                quality_score |-> 0 - 1, result |-> << >>,
                second |-> << >> ]

NoChunking == [ pc |-> "None" ]

NoRun == [ pc |-> "None" ]

NoDedup == [ pc |-> "None" ]

NoWindow == [ pc |-> "None" ]

NoSending == [ pc |-> "None" ]

CleanerIdle == cleaning = NoCleaning
ChunkerIdle == chunking = NoChunking
ApiIdle == jobs = << >> /\ tasks = << >> /\ files = << >>
RunIdle == run = NoRun
CallsIdle == dedup = NoDedup /\ window = NoWindow /\ sending = NoSending

PipelineIdle ==
    CleanerIdle /\ ChunkerIdle /\ ApiIdle /\ RunIdle /\ CallsIdle

(***************************************************************************)
(* Initial state: enhanced_scrape_url was called with a valid URL          *)
(***************************************************************************)
InitLocals ==
    /\ pc = "playwright"
    /\ strategy = 1
    /\ main_content = Unset
    /\ first_page_links = << >>
    /\ visited = {}
    /\ aggregated_texts = << >>
    /\ frontier = << >>
    /\ attempts = << >>
    /\ last_outcome = "None"
    /\ passed = {}
    /\ open_browsers = 0
    /\ requested = {}
    /\ links_from = "None"
    /\ fetch_errors = {}

\* either a plain fetch under every setting of the chain, with the crawl
\* parameters at their defaults, or a crawl under every page budget, with
\* the other parameters at their defaults (CrawlSpec below runs the crawl
\* part under every setting of the crawl parameters)
Init ==
    /\ AnalyzerIdle
    /\ SelectorIdle
    /\ PipelineIdle
    /\ \/ /\ crawl = FALSE
          /\ validate_quality \in BOOLEAN
          /\ STEALTH_AVAILABLE \in BOOLEAN
          /\ max_pages = 20
          /\ max_depth = 1
          /\ same_domain_only = TRUE
       \/ /\ crawl = TRUE
          /\ validate_quality = TRUE
          /\ STEALTH_AVAILABLE = TRUE
          /\ max_pages \in 0..MaxPagesBound
          /\ max_depth = 1
          /\ same_domain_only = TRUE
    /\ web = "any"
    /\ url = ValidSeed
    /\ InitLocals

(***************************************************************************)
(* The fetch strategy chain                                                *)
(***************************************************************************)
\* 'main_content' in locals()
IsSetAlways(mc) == TRUE
IsSet(mc) == mc # Unset

\* the guards of lines 364 and 382, evaluated when the rendered loop is left
AfterPlaywrightGoesOn(mc) ==
    IF STEALTH_AVAILABLE THEN "stealth" ELSE "requests"
AfterPlaywright(mc) ==
    IF IsSet(mc) THEN "resolved"
    ELSE IF STEALTH_AVAILABLE THEN "stealth" ELSE "requests"

\* the guard of line 382, evaluated after the stealth block
AfterStealth(mc) == IF IsSet(mc) THEN "resolved" ELSE "requests"

\* the validation left out: every content returned is taken
AcceptsAlways(content) == TRUE
\* validation step shared by the three blocks
Accepts(content) ==
    IF validate_quality
    THEN _validate_content_quality(content, MinContentLength)
    ELSE TRUE

\* outcome of an attempt, as the chain treats it
Outcome(raised, ok) ==
    IF raised THEN "Error" ELSE IF ok THEN "Success" ELSE "QualityRejected"

\* bookkeeping of one attempt of the strategy called name
Record(name, raised, ok) ==
    /\ attempts' = Append(attempts, name)
    /\ last_outcome' = Outcome(raised, ok)
    /\ passed' = IF ok THEN passed \cup {name} ELSE passed

\* the exit paths of a rendered fetch that end with an exception
RaisingPaths ==
    { p \in RenderStages \X BOOLEAN :
        render_raises(p[1], p[2]) /\ (finally_runs(p[1]) \/ ~p[2]) }

\* the link lists a rendered fetch of the seed page can return
RenderedLinks ==
    { _extract_links_from_html(hrefs, SeedUrl) : hrefs \in SiteHrefs(SeedUrl) }

\* one iteration of "for strategy in wait_strategies"
PlaywrightAttempt ==
    /\ pc = "playwright"
    /\ LET last == strategy = Len(wait_strategies)
           name == wait_strategies[strategy]
       IN  \/ \* _playwright_scraper raises: except branch, continue
              \E p \in RaisingPaths :
                /\ open_browsers' = open_browsers + render_leak(p[1], p[2])
                /\ Record(name, TRUE, FALSE)
                /\ UNCHANGED << seed_links, main_content >>
                /\ IF last
                   THEN pc' = AfterPlaywright(main_content)
                        /\ strategy' = strategy
                   ELSE pc' = "playwright" /\ strategy' = strategy + 1
           \/ \* _playwright_scraper returns (content, links)
              \E content \in Contents, links \in RenderedLinks :
                LET ok == Accepts(content)
                    mc == IF ok THEN content ELSE main_content
                IN  /\ open_browsers' =
                           open_browsers + render_leak("return", FALSE)
                    /\ Record(name, FALSE, ok)
                    /\ first_page_links' =
                           IF links # << >> THEN links ELSE first_page_links
                    /\ links_from' =
                           IF links # << >> THEN name ELSE links_from
                    /\ main_content' = mc
                    /\ IF ok \/ last
                       THEN pc' = AfterPlaywright(mc) /\ strategy' = strategy
                       ELSE pc' = "playwright" /\ strategy' = strategy + 1
    /\ UNCHANGED << params, crawl_locals >>

\* the stealth block: StealthScraper().scrape_url(url) and its validation.
\* winner is the first of its three strategies that returns more than
\* StealthMinLength characters (0: none does and scrape_url raises)
StealthAttempt ==
    /\ pc = "stealth"
    /\ \E winner \in 0..3, stage \in RenderStages,
          context_close_throws \in BOOLEAN, chrome_stage \in ChromeStages :
        /\ finally_runs(stage) \/ ~context_close_throws
        /\ winner = 1 => ~render_raises(stage, context_close_throws)
        /\ winner = 1 => chrome_stage = "launch"
        /\ winner = 2 => chrome_stage = "return"
        /\ open_browsers' = open_browsers
               + render_leak(stage, context_close_throws)
               + (IF winner = 1 THEN 0 ELSE chrome_leak(chrome_stage))
        /\ \E content \in Contents :
            LET raised == winner = 0
                ok == ~raised /\ Accepts(content)
                mc == IF ok THEN content ELSE main_content
            IN  /\ winner # 0 => content.striplen > StealthMinLength
                /\ winner = 0 => content = Text(0, FALSE, 0, 0)
                /\ Record("stealth", raised, ok)
                /\ main_content' = mc
                /\ pc' = AfterStealth(mc)
    /\ UNCHANGED << params, crawl_locals, strategy, seed_links >>

\* the final fallback block: _fallback_requests_scraper(url) and validation
FallbackAttempt ==
    /\ pc = "requests"
    /\ \/ /\ Record("requests", TRUE, FALSE)
          /\ UNCHANGED main_content
       \/ \E content \in Contents :
            /\ Record("requests", FALSE, Accepts(content))
            /\ main_content' = IF Accepts(content) THEN content
                               ELSE main_content
    /\ pc' = "resolved"
    /\ UNCHANGED << params, crawl_locals, strategy, seed_links,
                    open_browsers >>

\* raise ScraperError("All scraping strategies failed ...")
RaiseExhausted ==
    /\ pc = "resolved"
    /\ ~IsSet(main_content)
    /\ pc' = "failed"
    /\ UNCHANGED << params, crawl_locals, strategy, seed_links,
                    open_browsers, main_content, attempts, last_outcome, passed >>

\* if not crawl: return main_content
ReturnMain ==
    /\ pc = "resolved"
    /\ IsSet(main_content)
    /\ ~crawl
    /\ pc' = "done"
    /\ UNCHANGED << params, crawl_locals, strategy, seed_links,
                    open_browsers, main_content, attempts, last_outcome, passed >>


(***************************************************************************)
(* The crawl loop                                                          *)
(***************************************************************************)
Entry(u, d) == [url |-> u, depth |-> d]

\* for link in first_page_links: if link and link.startswith("http"):
\*     frontier.append((link, 1))
SeedEntries(links) ==
    LET kept == SelectSeq(links, StartsWithHttp)
    IN  [ i \in 1..Len(kept) |-> Entry(kept[i], 1) ]

\* lines 404-413: visited, aggregated_texts and the seeded frontier
SeedFrontier ==
    /\ pc = "resolved"
    /\ IsSet(main_content)
    /\ crawl
    /\ visited' = {SeedUrl}
    /\ aggregated_texts' = << SeedUrl >>
    /\ frontier' = SeedEntries(first_page_links)
    /\ pc' = "loop"
    /\ UNCHANGED << params, strategy, seed_links, open_browsers,
                    main_content, attempts, last_outcome, passed,
                    requested, fetch_errors >>

\* the loop condition of line 416
LoopGuardOffByOne == frontier # << >> /\ Cardinality(visited) <= max_pages
LoopGuard == frontier # << >> /\ Cardinality(visited) < max_pages

\* frontier.pop(0): the queue that remains
PopFrontierKeepsHead(f) == f
PopFrontier(f) == Tail(f)

\* the depth test that guards frontier.append in the link loop (line 448)
DepthAllowedAlways(next_depth) == TRUE
DepthAllowed(next_depth) == next_depth <= max_depth

\* the same-domain test of line 420
OffDomainNever(u) == FALSE
OffDomain(u) == same_domain_only /\ netloc(u) # netloc(SeedUrl)

\* the test that guards frontier.append in the link loop (line 446)
MayEnqueue(abs_url, vis, f) ==
    abs_url \notin vis /\ Cardinality(vis) + Len(f) < max_pages

RECURSIVE EnqueueLinks(_, _, _, _, _)
\* the loop over soup.find_all('a', href=True) of lines 441-449
EnqueueLinks(f, hrefs, current_url, depth, vis) ==
    IF hrefs = << >> THEN f
    ELSE LET abs_url == urljoin(current_url, Head(hrefs))
             next_depth == depth + 1
             f2 == IF /\ StartsWithHttp(abs_url)
                      /\ MayEnqueue(abs_url, vis, f)
                      /\ DepthAllowed(next_depth)
                   THEN Append(f, Entry(abs_url, next_depth))
                   ELSE f
         IN  EnqueueLinks(f2, Tail(hrefs), current_url, depth, vis)

\* where the loop goes when the fetch of a crawled page raises: the except
\* branch of lines 430-432 ends with continue
AfterPageErrorAborts == "failed"
AfterPageError == "loop"

\* the three tests that make the loop skip a popped entry (lines 418-423)
Skipped(e) ==
    \/ e.url \in visited
    \/ OffDomain(e.url)
    \/ e.depth > max_depth

\* one iteration of the while loop of lines 416-451
CrawlStep ==
    /\ pc = "loop"
    /\ LoopGuard
    /\ LET e == Head(frontier)
           rest == PopFrontier(frontier)
       IN  IF Skipped(e)
           THEN /\ frontier' = rest
                /\ UNCHANGED << pc, visited, aggregated_texts, requested,
                                fetch_errors >>
           ELSE /\ visited' = visited \cup {e.url}
                /\ requested' = requested \cup {e.url}
                /\ \/ \* _fallback_requests_scraper raises: continue
                      /\ frontier' = rest
                      /\ fetch_errors' = fetch_errors \cup {e.url}
                      /\ pc' = AfterPageError
                      /\ UNCHANGED aggregated_texts
                   \/ \E page_text \in {"", "text"} :
                      /\ UNCHANGED << pc, fetch_errors >>
                      /\ aggregated_texts' =
                             IF page_text # ""
                             THEN Append(aggregated_texts, e.url)
                             ELSE aggregated_texts
                      /\ \/ \* the second request raises: except, pass
                            frontier' = rest
                         \/ frontier' \in
                              { EnqueueLinks(rest, hrefs, e.url, e.depth,
                                             visited \cup {e.url}) :
                                  hrefs \in SiteHrefs(e.url) }
    /\ UNCHANGED << params, strategy, seed_links, open_browsers,
                    main_content, attempts, last_outcome, passed >>

\* the loop ends; lines 453-455 join and return the aggregate
CrawlFinish ==
    /\ pc = "loop"
    /\ ~LoopGuard
    /\ pc' = "done"
    /\ UNCHANGED << params, crawl_locals, strategy, seed_links,
                    open_browsers, main_content, attempts, last_outcome, passed >>

Next ==
    \/ PlaywrightAttempt
    \/ StealthAttempt
    \/ FallbackAttempt
    \/ RaiseExhausted
    \/ ReturnMain
    \/ SeedFrontier
    \/ CrawlStep
    \/ CrawlFinish

Spec == Init /\ [][Next]_vars


(***************************************************************************)
(* The crawl part on its own: the state at line 400 after the first        *)
(* rendered attempt has passed validation, for every list of links a       *)
(* rendered attempt can return (the empty list included, which is what the *)
(* crawl starts from when no rendered attempt returned) and every setting  *)
(* of the crawl parameters.  The crawl reads nothing else of the chain.    *)
(***************************************************************************)
InitCrawl ==
    /\ AnalyzerIdle
    /\ SelectorIdle
    /\ PipelineIdle
    /\ crawl = TRUE
    /\ validate_quality = TRUE
    /\ STEALTH_AVAILABLE = TRUE
    /\ max_pages \in 0..MaxPagesBound
    /\ max_depth \in 0..MaxDepthBound
    /\ same_domain_only \in BOOLEAN
    /\ web = "any"
    /\ url = ValidSeed
    /\ pc = "resolved"
    /\ strategy = 1
    /\ main_content = Text(MinContentLength, FALSE, 2, 4)
    /\ first_page_links \in RenderedLinks
    /\ links_from = (IF first_page_links = << >> THEN "None"
                     ELSE wait_strategies[1])
    /\ visited = {}
    /\ aggregated_texts = << >>
    /\ frontier = << >>
    /\ attempts = << wait_strategies[1] >>
    /\ last_outcome = "Success"
    /\ passed = { wait_strategies[1] }
    /\ open_browsers = 0
    /\ requested = {}
    /\ fetch_errors = {}

NextCrawl ==
    \/ SeedFrontier
    \/ CrawlStep
    \/ CrawlFinish

CrawlSpec == InitCrawl /\ [][NextCrawl]_vars

\* the run is sequential: a step that can be taken is eventually taken
FairCrawlSpec == CrawlSpec /\ WF_vars(NextCrawl)

(***************************************************************************)
(* The scenario of the crawl frontier: max_pages = 5, the seed page links  *)
(* to 20 same-domain pages that link to each other in a cycle.             *)
(***************************************************************************)
InitScenario ==
    /\ AnalyzerIdle
    /\ SelectorIdle
    /\ PipelineIdle
    /\ crawl = TRUE
    /\ validate_quality = TRUE
    /\ STEALTH_AVAILABLE = TRUE
    /\ max_pages = 5
    /\ max_depth \in 1..MaxDepthBound
    /\ same_domain_only \in BOOLEAN
    /\ web = "cycle20"
    /\ url = ValidSeed
    /\ InitLocals

NextScenario ==
    \/ PlaywrightAttempt
    \/ StealthAttempt
    \/ FallbackAttempt
    \/ RaiseExhausted
    \/ SeedFrontier
    \/ CrawlStep
    \/ CrawlFinish

SpecScenario == InitScenario /\ [][NextScenario]_vars

(***************************************************************************)
(* The entry of enhanced_scrape_url: the call with any url argument, seen  *)
(* from its first line.  The chain that follows is the one above, without  *)
(* a crawl.                                                                *)
(***************************************************************************)
InitEntry ==
    /\ AnalyzerIdle
    /\ SelectorIdle
    /\ PipelineIdle
    /\ crawl = FALSE
    /\ validate_quality \in BOOLEAN
    /\ STEALTH_AVAILABLE \in BOOLEAN
    /\ max_pages = 20
    /\ max_depth = 1
    /\ same_domain_only = TRUE
    /\ web = "any"
    /\ url \in SeedCandidates
    /\ pc = "entry"
    /\ strategy = 1
    /\ main_content = Unset
    /\ first_page_links = << >>
    /\ visited = {}
    /\ aggregated_texts = << >>
    /\ frontier = << >>
    /\ attempts = << >>
    /\ last_outcome = "None"
    /\ passed = {}
    /\ open_browsers = 0
    /\ requested = {}
    /\ links_from = "None"
    /\ fetch_errors = {}

\* if not _is_valid_url(url): raise ScraperError("Invalid URL: ...")
ValidateUrl ==
    /\ pc = "entry"
    /\ pc' = IF _is_valid_url(url) THEN "playwright" ELSE "invalid"
    /\ UNCHANGED << params, crawl_locals, strategy, seed_links,
                    open_browsers, main_content, attempts, last_outcome, passed >>

NextEntry ==
    \/ ValidateUrl
    \/ PlaywrightAttempt
    \/ StealthAttempt
    \/ FallbackAttempt
    \/ RaiseExhausted
    \/ ReturnMain

EntrySpec == InitEntry /\ [][NextEntry]_vars

(***************************************************************************)
(* ContentQualityAnalyzer.analyze_content_quality                          *)
(***************************************************************************)
\* the scraper is not in use
ScraperIdle ==
    /\ crawl = FALSE
    /\ validate_quality = TRUE
    /\ STEALTH_AVAILABLE = TRUE
    /\ max_pages = 20
    /\ max_depth = 1
    /\ same_domain_only = TRUE
    /\ web = "any"
    /\ url = ValidSeed
    /\ pc = "idle"
    /\ strategy = 1
    /\ main_content = Unset
    /\ first_page_links = << >>
    /\ visited = {}
    /\ aggregated_texts = << >>
    /\ frontier = << >>
    /\ attempts = << >>
    /\ last_outcome = "None"
    /\ passed = {}
    /\ open_browsers = 0
    /\ requested = {}
    /\ links_from = "None"
    /\ fetch_errors = {}

scraper_vars ==
    << max_pages, max_depth, same_domain_only, validate_quality, crawl,
       STEALTH_AVAILABLE, web, url, pc, strategy, main_content,
       first_page_links, visited, aggregated_texts, frontier, attempts,
       last_outcome, passed, open_browsers, requested, links_from,
       fetch_errors >>

\* the length check of lines 100-104: what it adds to the score
LengthBonusAtLeast(char_count) ==
    IF char_count < 100 THEN 0 ELSE IF char_count >= 500 THEN 20 ELSE 0
LengthBonus(char_count) ==
    IF char_count < 100 THEN 0 ELSE IF char_count > 500 THEN 20 ELSE 0

\* repetition_ratio > 0.3, with
\* repetition_ratio = most_common_freq / max(word_count, 1)
HighRepetition(t) ==
    10 * t.most_common_freq > 3 * PyMax(t.word_count, 1)

\* 3 < avg_word_length < 8, with
\* avg_word_length = sum(len(word)) / max(word_count, 1)
MeaningfulWordLength(t) ==
    /\ 3 * PyMax(t.word_count, 1) < t.word_chars
    /\ t.word_chars < 8 * PyMax(t.word_count, 1)

\* the checks of lines 96-126 in their order; the score and the issues
analyze_content_quality(t) ==
    IF t.char_count = 0
    THEN [ quality_score |-> 0, issues |-> << "Empty content" >> ]
    ELSE
    LET s1 == LengthBonus(t.char_count)
        i1 == IF t.char_count < 100 THEN << "Content too short" >> ELSE << >>
        diverse == t.word_count > 0 /\ 2 * t.unique_words > t.word_count
        poor == t.word_count > 0 /\ ~diverse
                  /\ 10 * t.unique_words < 3 * t.word_count
        s2 == IF diverse THEN s1 + 30 ELSE s1
        i2 == IF poor THEN Append(i1, "Low word diversity") ELSE i1
        s3 == IF HighRepetition(t) THEN s2 ELSE s2 + 25
        i3 == IF HighRepetition(t)
              THEN Append(i2, "High repetition detected") ELSE i2
        s4 == IF t.line_count > 5 THEN s3 + 15 ELSE s3
        s5 == IF MeaningfulWordLength(t) THEN s4 + 10 ELSE s4
    IN  [ quality_score |-> IF s5 < 100 THEN s5 ELSE 100, issues |-> i3 ]

InitQuality ==
    /\ ScraperIdle
    /\ SelectorIdle
    /\ PipelineIdle
    /\ text \in Texts(MaxWords)
    /\ report = NoReport

\* the call analyzer.analyze_content_quality(text) returns
AnalyzeContentQuality ==
    /\ report = NoReport
    /\ text # NoText
    /\ report' = analyze_content_quality(text)
    /\ UNCHANGED << scraper_vars, selector_vars, pipeline_vars, text >>

NextQuality == AnalyzeContentQuality

QualitySpec == InitQuality /\ [][NextQuality]_vars

(***************************************************************************)
(* generator.py: _count_tokens, _select_model_and_prompt and the prompt    *)
(* preparation of generate_qa (lines 371-400)                              *)
(***************************************************************************)
\* _count_tokens(text) for len(text) = n: int(n / 2), 0 for the empty text
_count_tokens(n) == IF n = 0 THEN 0 ELSE n \div 2

\* int(x): truncation towards zero of the quotient a / b, b > 0
IntDiv(a, b) == IF a >= 0 THEN a \div b ELSE 0 - ((0 - a) \div b)

\* len(s[:k]) and len(s[-e:]) for len(s) = n, as Python slices
PrefixLen(n, k) ==
    IF k >= 0 THEN (IF k < n THEN k ELSE n)
    ELSE (IF n + k > 0 THEN n + k ELSE 0)
SuffixLen(n, e) ==
    IF e > 0 THEN (IF e < n THEN e ELSE n)
    ELSE IF e = 0 THEN n
    ELSE (IF n + e > 0 THEN n + e ELSE 0)

\* len of the context a prompt embeds
EmbeddedLen(k) == k.head + (IF k.marker THEN MarkerLen ELSE 0) + k.tail

TemplateLen(template) ==
    IF template = "standard" THEN StandardTemplateLen ELSE InstructTemplateLen

\* len(_build_prompt_standard(context, query)), ..._instruct(...)
PromptLen(template, k, q) == TemplateLen(template) + EmbeddedLen(k) + q

\* the test of line 308
FitsPrimaryStrict(context_tokens, query_tokens) ==
    context_tokens <
        TOKEN_LIMIT_PRIMARY - query_tokens - PROMPT_OVERHEAD_STANDARD
FitsPrimary(context_tokens, query_tokens) ==
    context_tokens <=
        TOKEN_LIMIT_PRIMARY - query_tokens - PROMPT_OVERHEAD_STANDARD

\* the test of line 317
FitsFallback(context_tokens, query_tokens) ==
    context_tokens <=
        TOKEN_LIMIT_FALLBACK - query_tokens - PROMPT_OVERHEAD_INSTRUCT

\* safe_context_chars of line 351
SafeContextCharsNoMargin(query_tokens) ==
    (TOKEN_LIMIT_FALLBACK - query_tokens - PROMPT_OVERHEAD_INSTRUCT) * 2
SafeContextChars(query_tokens) ==
    (TOKEN_LIMIT_FALLBACK - query_tokens - PROMPT_OVERHEAD_INSTRUCT - 200) * 2

\* lines 330-341: keep 70% from the start and 30% from the end
KeepBothEnds(n, query_tokens) ==
    LET max_context_chars ==
            (TOKEN_LIMIT_FALLBACK - query_tokens - PROMPT_OVERHEAD_INSTRUCT) * 2
        start_chars == IntDiv(7 * max_context_chars, 10)
        end_chars == IntDiv(3 * max_context_chars, 10)
    IN  IF n > max_context_chars
        THEN Kept(PrefixLen(n, start_chars), TRUE, SuffixLen(n, end_chars))
        ELSE Full(n)

\* lines 343-354: the context the truncation branch ends up with
Truncate(n, q, query_tokens) ==
    LET first == KeepBothEnds(n, query_tokens)
        final_tokens == _count_tokens(PromptLen("instruct", first, q))
    IN  IF final_tokens > TOKEN_LIMIT_FALLBACK
        THEN Kept(PrefixLen(n, SafeContextChars(query_tokens)), FALSE, 0)
        ELSE first

Decide(via, m, template, k, n, q, system_len) ==
    [ via |-> via, model |-> m, template |-> template, kept |-> k,
      context_tokens |-> _count_tokens(n), query_tokens |-> _count_tokens(q),
      final_tokens |-> _count_tokens(PromptLen(template, k, q)),
      total_input_tokens |->
          _count_tokens(PromptLen(template, k, q)) + _count_tokens(system_len) ]

\* _select_model_and_prompt(context, query), len(context) = n, len(query) = q
_select_model_and_prompt(n, q) ==
    LET query_tokens == _count_tokens(q)
        context_tokens == _count_tokens(n)
    IN  IF FitsPrimary(context_tokens, query_tokens)
        THEN Decide("select", DEFAULT_MODEL, "standard", Full(n), n, q,
                    SystemStandardLen)
        ELSE IF FitsFallback(context_tokens, query_tokens)
        THEN Decide("select", FALLBACK_MODEL, "instruct", Full(n), n, q,
                    SystemInstructLen)
        ELSE Decide("select", FALLBACK_MODEL, "instruct",
                    Truncate(n, q, query_tokens), n, q, SystemInstructLen)

\* the test "if model:" of line 374
UsesCallerModelNever(m) == FALSE
UsesCallerModel(m) == m # "None"

\* lines 371-381 of generate_qa: the model, the prompt and the system
\* message before the final check
Prepared(n, q, m) ==
    IF UsesCallerModel(m)
    THEN Decide("generate_qa", m, "standard", Full(n), n, q,
                SystemStandardLen)
    ELSE [ _select_model_and_prompt(n, q) EXCEPT !.via = "generate_qa" ]

\* lines 371-400 of generate_qa: the model, the prompt and the system
\* message handed to the API call
generate_qa(n, q, m) ==
    LET first == Prepared(n, q, m)
        system_len == IF first.template = "standard"
                      THEN SystemStandardLen ELSE SystemInstructLen
    IN  IF first.total_input_tokens > TOKEN_LIMIT_FALLBACK
        THEN Decide("generate_qa", first.model,
                    IF first.model = FALLBACK_MODEL THEN "instruct"
                    ELSE "standard",
                    Kept(PrefixLen(n, (TOKEN_LIMIT_FALLBACK - 1000) * 2),
                         FALSE, 0),
                    n, q, system_len)
        ELSE first

\* lengths of the queries tried: empty, the query of the tests, a query of
\* 50 estimated tokens, and queries that alone fill the larger model
QueryLens == {0, 17, 100, 22801, 22802, 23202, 23204}

\* lengths of the contexts tried with a query of q characters: short ones,
\* the 100000 characters of the tests and of the scenario, and those within
\* Window of the lengths where a test of the selection changes side
ContextLens(q) ==
    {0, 1, 11, 1000, 100000}
    \cup { n \in { b - q + e : b \in {5800, 22000, 22014, 22800, 23200},
                                e \in (0 - 2 * Window)..(2 * Window) }
             \cup { 22000 + e : e \in (0 - Window)..Window } : n >= 0 }

\* the model arguments tried: none, and three model ids
Models == {"None", "custom/model", DEFAULT_MODEL, FALLBACK_MODEL}

InitSelect ==
    /\ ScraperIdle
    /\ AnalyzerIdle
    /\ PipelineIdle
    /\ query_len \in QueryLens
    /\ context_len \in ContextLens(query_len)
    /\ model \in Models
    /\ decision = NoDecision

\* the call _select_model_and_prompt(context, query) returns
SelectModelAndPrompt ==
    /\ decision = NoDecision
    /\ model = "None"
    /\ decision' = _select_model_and_prompt(context_len, query_len)
    /\ UNCHANGED << scraper_vars, analyzer_vars, pipeline_vars, context_len,
                    query_len, model >>

\* generate_qa(context_chunks, query, model) reaches the API call of line 402
\* (GROQ_API_KEY is set)
GenerateQa ==
    /\ decision = NoDecision
    /\ decision' = generate_qa(context_len, query_len, model)
    /\ UNCHANGED << scraper_vars, analyzer_vars, pipeline_vars, context_len,
                    query_len, model >>

NextSelect ==
    \/ SelectModelAndPrompt
    \/ GenerateQa

SelectSpec == InitSelect /\ [][NextSelect]_vars

(***************************************************************************)
(* Texts handed to aggressive_clean_text and enhanced_chunk_text.  A text  *)
(* is the sequence of its lines, text.split('\n'); a line is the sequence  *)
(* of its words, separated by single spaces; a word is a stem followed by  *)
(* at most one punctuation mark.  The empty text is one blank line.        *)
(***************************************************************************)
\* len(stem)
StemLen(stem) ==
    CASE stem \in {""} -> 0
      [] stem \in {"is"} -> 2
      [] stem \in {"FAQ"} -> 3
      [] stem \in {"kilo", "lima", "spam", "menu"} -> 4
      [] stem \in {"alpha", "bravo", "delta", "hotel", "12345"} -> 5
      [] stem \in {"HEADING"} -> 7
      [] stem \in {"subscribe"} -> 9

\* set(stem.lower())
StemChars(stem) ==
    CASE stem = "" -> {}
      [] stem = "HEADING" -> {"h", "e", "a", "d", "i", "n", "g"}
      [] stem = "is" -> {"i", "s"}
      [] stem = "FAQ" -> {"f", "a", "q"}
      [] stem = "kilo" -> {"k", "i", "l", "o"}
      [] stem = "lima" -> {"l", "i", "m", "a"}
      [] stem = "spam" -> {"s", "p", "a", "m"}
      [] stem = "menu" -> {"m", "e", "n", "u"}
      [] stem = "alpha" -> {"a", "l", "p", "h"}
      [] stem = "bravo" -> {"b", "r", "a", "v", "o"}
      [] stem = "delta" -> {"d", "e", "l", "t", "a"}
      [] stem = "hotel" -> {"h", "o", "t", "e", "l"}
      [] stem = "12345" -> {"1", "2", "3", "4", "5"}
      [] stem = "subscribe" -> {"s", "u", "b", "c", "r", "i", "e"}

\* stems matched by the pattern of line 277
InterrogativeStems == {"is"}
\* stems holding an entry of noise_indicators (lines 228-234)
IndicatorStems == {"subscribe"}
\* stems matched by one of noise_patterns (line 30)
PatternStems == {"menu"}
\* stems made of digits
DigitStems == {"12345"}
\* stems in capitals
UpperStems == {"FAQ", "HEADING"}

Word(stem, mark) == [ stem |-> stem, mark |-> mark ]

BlankLine == << >>
\* prev_line = None
NoLine == << Word("None", "") >>
EmptyText == << BlankLine >>

\* len(word)
WordLen(word) == StemLen(word.stem) + (IF word.mark = "" THEN 0 ELSE 1)

\* word.isalpha()
IsAlpha(word) == word.mark = "" /\ word.stem \notin DigitStems

RECURSIVE SumWordLen(_)
\* sum(len(word) for word in words)
SumWordLen(words) ==
    IF words = << >> THEN 0
    ELSE WordLen(Head(words)) + SumWordLen(Tail(words))

\* len(line)
LineLen(line) ==
    IF line = << >> THEN 0 ELSE SumWordLen(line) + Len(line) - 1

RECURSIVE Flatten(_)
\* the words of a sequence of lines, text.split()
Flatten(lines) ==
    IF lines = << >> THEN << >> ELSE Head(lines) \o Flatten(Tail(lines))

RECURSIVE SumLineLen(_)
SumLineLen(lines) ==
    IF lines = << >> THEN 0 ELSE LineLen(Head(lines)) + SumLineLen(Tail(lines))

\* len('\n'.join(lines))
TextLen(lines) ==
    IF lines = << >> THEN 0 ELSE SumLineLen(lines) + Len(lines) - 1

\* '\n'.join(lines) as a text
Join(lines) == IF lines = << >> THEN EmptyText ELSE lines

RECURSIVE StripLeft(_)
StripLeft(lines) ==
    IF lines = << >> THEN << >>
    ELSE IF Head(lines) = BlankLine THEN StripLeft(Tail(lines))
    ELSE lines

RECURSIVE StripRight(_)
StripRight(lines) ==
    IF lines = << >> THEN << >>
    ELSE IF lines[Len(lines)] = BlankLine
    THEN StripRight(SubSeq(lines, 1, Len(lines) - 1))
    ELSE lines

\* text.strip()
Strip(t) == Join(StripRight(StripLeft(t)))

\* the lines of a text that are not blank
NonBlank(t) == SelectSeq(t, LAMBDA line : line # BlankLine)

\* occurrences of the most frequent element of a sequence
MostCommon(words) ==
    IF words = << >> THEN 0
    ELSE CHOOSE m \in 1..Len(words) :
           /\ \E x \in DOMAIN words :
                 Cardinality({ i \in DOMAIN words : words[i] = words[x] }) = m
           /\ \A x \in DOMAIN words :
                 Cardinality({ i \in DOMAIN words : words[i] = words[x] }) <= m

\* what analyze_content_quality reads of a text (lines 79-94); lower() maps
\* no stem onto another one
Measures(t) ==
    LET words == Flatten(t)
        alphabetic == SelectSeq(words, IsAlpha)
    IN  MkText(TextLen(t), Len(words), Len(NonBlank(t)),
               Cardinality({ alphabetic[i] : i \in DOMAIN alphabetic }),
               MostCommon(alphabetic), SumWordLen(words))

(***************************************************************************)
(* aggressive_clean_text.  The texts cleaned have no one-letter words, no  *)
(* whitespace before a punctuation mark and no capital letter inside a     *)
(* line after a sentence end, and a word matched by noise_patterns is the  *)
(* first or the last of its line: on these NFKD normalisation and the      *)
(* substitutions of lines 153, 155, 159 and 162 change nothing, that of    *)
(* line 163 changes line breaks only, and _clean_line (lines 247-261)      *)
(* returns its argument.                                                   *)
(***************************************************************************)
\* analyzer.remove_noise (line 150) on one line: the matched words go, and
\* line.strip() of line 170 removes the spaces they leave
remove_noise(t) ==
    [ i \in DOMAIN t |->
        SelectSeq(t[i], LAMBDA word : word.stem \notin PatternStems) ]

RECURSIVE NewlineRun(_, _)
\* the position of the newline that follows line k within its run of
\* consecutive newlines
NewlineRun(t, k) ==
    IF k = 1 \/ t[k] # BlankLine THEN 1 ELSE NewlineRun(t, k - 1) + 1

\* re.sub(r'\n{4,}', '\n\n\n', text) (line 154): the fourth and later
\* newlines of a run go, each taking the blank line before it
CapNewlines(t) ==
    LET keep == { k \in DOMAIN t : k = Len(t) \/ NewlineRun(t, k) <= 3 }
        RECURSIVE Pick(_)
        Pick(k) == IF k > Len(t) THEN << >>
                   ELSE IF k \in keep THEN << t[k] >> \o Pick(k + 1)
                   ELSE Pick(k + 1)
    IN  Pick(1)

\* the line ends with one of . ! ? and the line starts with a capital letter
EndsSentence(line) == line # BlankLine /\ line[Len(line)].mark \in {".", "!", "?"}
StartsUpper(line) == line # BlankLine /\ line[1].stem \in UpperStems

RECURSIVE SkipBlank(_)
\* the lines from the first one that is not blank
SkipBlank(lines) ==
    IF lines # << >> /\ Head(lines) = BlankLine THEN SkipBlank(Tail(lines))
    ELSE lines

RECURSIVE FixSentenceBreaks(_)
\* re.sub(r'([.!?])\s*([A-Z])', r'\1 \2', text) (line 163): the line breaks
\* between the end of a sentence and a capital letter become one space,
\* which joins the two lines and takes the blank lines between them
FixSentenceBreaks(lines) ==
    IF lines = << >> THEN << >>
    ELSE LET line == Head(lines)
             next == SkipBlank(Tail(lines))
         IN  IF EndsSentence(line) /\ next # << >> /\ StartsUpper(Head(next))
             THEN FixSentenceBreaks(<< line \o Head(next) >> \o Tail(next))
             ELSE << line >> \o FixSentenceBreaks(Tail(lines))

\* set(line_lower)
LineChars(line) ==
    UNION { StemChars(line[i].stem) : i \in DOMAIN line }
      \cup ({ line[i].mark : i \in DOMAIN line } \ {""})
      \cup (IF Len(line) > 1 THEN {" "} ELSE {})

\* _is_noise_line(line) for a line that is not blank (lines 215-244)
_is_noise_line(line) ==
    \/ LineLen(line) < 3
    \/ \A i \in DOMAIN line : line[i].stem \in DigitStems
    \/ \E i \in DOMAIN line : line[i].stem \in IndicatorStems
    \/ /\ 10 * Cardinality(LineChars(line)) < 3 * LineLen(line)
       /\ LineLen(line) > 10

RECURSIVE ProcessLines(_)
\* step 5 (lines 166-183): blank lines are kept, noise lines and lines of
\* at most 2 characters are dropped
ProcessLines(lines) ==
    IF lines = << >> THEN << >>
    ELSE LET line == Head(lines)
             rest == ProcessLines(Tail(lines))
         IN  IF line = BlankLine THEN << BlankLine >> \o rest
             ELSE IF _is_noise_line(line) THEN rest
             ELSE IF LineLen(line) > 2 THEN << line >> \o rest
             ELSE rest

RECURSIVE FinalLines(_, _, _)
\* step 6 (lines 186-200): at most 2 blank lines are appended in a row of
\* cleaned_lines, and a line equal to the last appended one is skipped
FinalLines(cleaned_lines, prev_line, empty_count) ==
    IF cleaned_lines = << >> THEN << >>
    ELSE LET line == Head(cleaned_lines)
             rest == Tail(cleaned_lines)
         IN  IF line = BlankLine
             THEN IF empty_count + 1 <= 2
                  THEN << line >> \o FinalLines(rest, prev_line, empty_count + 1)
                  ELSE FinalLines(rest, prev_line, empty_count + 1)
             ELSE IF line # prev_line
                  THEN << line >> \o FinalLines(rest, line, 0)
                  ELSE FinalLines(rest, prev_line, 0)

\* the test of lines 277-279 on a line
UsefulAlways(line) == TRUE
Useful(line) ==
    \/ \E i \in DOMAIN line : line[i].stem \in InterrogativeStems
    \/ \E i \in DOMAIN line : line[i].mark = "?"
    \/ Len(line) > 5

\* _salvage_low_quality_content(text)
_salvage_low_quality_content(t) ==
    Join(SelectSeq(t, LAMBDA line : line # BlankLine /\ Useful(line)))

SalvageThreshold == 30

\* the lines held after step 6, for a text that is not empty
Step6(t) ==
    FinalLines(ProcessLines(FixSentenceBreaks(CapNewlines(remove_noise(t)))),
               NoLine, 0)

\* aggressive_clean_text(text): what it holds at line 202, the score of
\* line 205 and what it returns
CleanTrace(t) ==
    IF t = EmptyText
    THEN [ final_lines |-> << >>, quality_score |-> 0 - 1,
           result |-> EmptyText ]
    ELSE LET final_lines == Step6(t)
             joined == Strip(Join(final_lines))
             quality == analyze_content_quality(Measures(joined))
         IN  [ final_lines |-> final_lines,
               quality_score |-> quality.quality_score,
               result |-> IF quality.quality_score < SalvageThreshold
                          THEN _salvage_low_quality_content(joined)
                          ELSE joined ]

aggressive_clean_text(t) == CleanTrace(t).result

\* the lines of the longer texts
CoreLines ==
    { BlankLine,
      << Word("alpha", ""), Word("bravo", "") >>,
      << Word("is", ""), Word("spam", ""), Word("spam", ""),
         Word("spam", "") >>,
      << Word("spam", ""), Word("spam", ""), Word("spam", "") >> }

\* the lines of the shorter texts
CleanLines ==
    CoreLines \cup
    { << Word("delta", ""), Word("hotel", "") >>,
      << Word("spam", ""), Word("spam", ""), Word("spam", ""),
         Word("spam", ""), Word("spam", "") >>,
      << Word("spam", ""), Word("spam", "?") >>,
      << Word("alpha", ""), Word("bravo", ""), Word("delta", ""),
         Word("hotel", ""), Word("kilo", ""), Word("lima", "") >>,
      << Word("subscribe", ""), Word("alpha", "") >>,
      << Word("12345", "") >>,
      << Word("menu", "") >> }

\* the texts cleaned: at most n lines of CoreLines, or at most ShortLines
\* lines of CleanLines
CleanTexts(n) ==
    UNION { [ 1..k -> CoreLines ] : k \in 1..n }
      \cup UNION { [ 1..k -> CleanLines ] : k \in 1..ShortLines }

InitClean ==
    /\ ScraperIdle /\ AnalyzerIdle /\ SelectorIdle
    /\ CallsIdle
    /\ ChunkerIdle /\ ApiIdle /\ RunIdle
    /\ \E t \in CleanTexts(MaxLines) :
          cleaning = [ NoCleaning EXCEPT !.pc = "call", !.text = t ]

\* the call aggressive_clean_text(text) returns
AggressiveCleanText ==
    /\ cleaning.pc = "call"
    /\ LET trace == CleanTrace(cleaning.text)
       IN  cleaning' = [ cleaning EXCEPT
                           !.pc = "cleaned",
                           !.final_lines = trace.final_lines,
                           !.quality_score = trace.quality_score,
                           !.result = trace.result ]
    /\ UNCHANGED << scraper_vars, analyzer_vars, selector_vars, chunking,
                    jobs, tasks, files, run, dedup, window, sending >>

\* the result is cleaned once more: aggressive_clean_text(result) returns
CleanAgain ==
    /\ cleaning.pc = "cleaned"
    /\ cleaning' = [ cleaning EXCEPT
                       !.pc = "again",
                       !.second = aggressive_clean_text(cleaning.result) ]
    /\ UNCHANGED << scraper_vars, analyzer_vars, selector_vars, chunking,
                    jobs, tasks, files, run, dedup, window, sending >>

NextClean ==
    \/ AggressiveCleanText
    \/ CleanAgain

CleanSpec == InitClean /\ [][NextClean]_vars

(***************************************************************************)
(* enhanced_chunk_text.  In the texts chunked every line that is not blank *)
(* ends with a sentence terminator, so no sentence runs over a line break, *)
(* and lines carry no surrounding whitespace.  A chunk is a text.          *)
(* The tokenizer is the library's: here a word is one token and so is a    *)
(* punctuation mark, and decode joins the tokens by single spaces and      *)
(* attaches a terminator to the word before it.                            *)
(***************************************************************************)
Terminators == {".", "!", "?"}

\* line.isupper()
IsUpper(line) ==
    /\ \A i \in DOMAIN line : line[i].stem \in UpperStems \cup DigitStems
    /\ \E i \in DOMAIN line : line[i].stem \in UpperStems

\* _is_section_boundary(line) (lines 365-385)
_is_section_boundary(line) ==
    /\ line # BlankLine
    /\ \/ line[1] = Word("HEADING", ":")
       \/ /\ LineLen(line) < 100
          /\ \/ IsUpper(line)
             \/ (line[1].stem \in DigitStems /\ line[1].mark = ".")
             \/ line[Len(line)].mark = ":"

RECURSIVE Sections(_, _)
\* the loop of lines 336-350: the sections, each the list of its lines
Sections(lines, current_section) ==
    IF lines = << >>
    THEN IF current_section # << >> THEN << current_section >> ELSE << >>
    ELSE LET line == Head(lines)
             flush == _is_section_boundary(line) /\ current_section # << >>
             started == IF flush THEN << >> ELSE current_section
             extended == IF line # BlankLine THEN Append(started, line)
                         ELSE started
         IN  (IF flush THEN << current_section >> ELSE << >>)
               \o Sections(Tail(lines), extended)

RECURSIVE SplitSentences(_, _)
\* re.split(r'[.!?]+', text), each part stripped and the empty ones dropped
SplitSentences(words, current) ==
    IF words = << >>
    THEN IF current # << >> THEN << current >> ELSE << >>
    ELSE LET word == Head(words)
         IN  IF word.mark \in Terminators
             THEN << Append(current, Word(word.stem, "")) >>
                    \o SplitSentences(Tail(words), << >>)
             ELSE SplitSentences(Tail(words), Append(current, word))

\* '. '.join(current_chunk) + '.'
JoinSentences(current_chunk) ==
    << Flatten([ i \in DOMAIN current_chunk |->
                   [ current_chunk[i] EXCEPT
                       ![Len(current_chunk[i])].mark = "." ] ]) >>

RECURSIVE SplitLarge(_, _, _, _)
\* the loop of lines 402-422 of _split_large_section
SplitLarge(sentences, current_chunk, current_length, limit) ==
    IF sentences = << >>
    THEN IF current_chunk # << >> THEN << JoinSentences(current_chunk) >>
         ELSE << >>
    ELSE LET sentence == Head(sentences)
             sentence_length == LineLen(sentence)
         IN  IF current_length + sentence_length > limit
                  /\ current_chunk # << >>
             THEN LET overlap_sentences ==
                        IF Len(current_chunk) > 2
                        THEN SubSeq(current_chunk, Len(current_chunk) - 1,
                                    Len(current_chunk))
                        ELSE current_chunk
                      next_chunk == Append(overlap_sentences, sentence)
                  IN  << JoinSentences(current_chunk) >>
                        \o SplitLarge(Tail(sentences), next_chunk,
                                      SumLineLen(next_chunk), limit)
             ELSE SplitLarge(Tail(sentences), Append(current_chunk, sentence),
                             current_length + sentence_length, limit)

\* _split_large_section(section, chunk_size, chunk_overlap): the call of
\* line 392 names a function the module does not define, the NameError is
\* swallowed by line 393, and the sentence splitting of lines 397-424 runs
_split_large_section(section, chunk_size) ==
    SplitLarge(SplitSentences(Flatten(section), << >>), << >>, 0,
               chunk_size * 4)

RECURSIVE ChunkSections(_, _)
\* the loop of lines 354-360
ChunkSections(sections, chunk_size) ==
    IF sections = << >> THEN << >>
    ELSE LET section == Head(sections)
         IN  (IF TextLen(section) <= chunk_size * 4 THEN << section >>
              ELSE _split_large_section(section, chunk_size))
               \o ChunkSections(Tail(sections), chunk_size)

_structure_aware_chunking(t, chunk_size) ==
    ChunkSections(Sections(t, << >>), chunk_size)

\* the length test of line 532
LongEnoughStrict(chunk, min_chunk_size) == TextLen(chunk) > min_chunk_size
LongEnough(chunk, min_chunk_size) == TextLen(chunk) >= min_chunk_size

QualityFloor == 20

\* _validate_and_filter_chunks without the quality test of line 537
ValidateLengthOnly(chunks, min_chunk_size) ==
    SelectSeq(chunks, LAMBDA chunk : LongEnough(chunk, min_chunk_size))
\* _validate_and_filter_chunks(chunks, min_chunk_size)
_validate_and_filter_chunks(chunks, min_chunk_size) ==
    SelectSeq(chunks, LAMBDA chunk :
        /\ LongEnough(chunk, min_chunk_size)
        /\ analyze_content_quality(Measures(chunk)).quality_score
              > QualityFloor)

RECURSIVE CharacterChunks(_, _, _, _, _)
\* the loop of lines 500-520 of _character_based_chunking
CharacterChunks(sentences, current_chunk, current_length, chunk_size, min_chunk_size) ==
    LET emit == IF current_chunk # << >>
                     /\ TextLen(JoinSentences(current_chunk)) >= min_chunk_size
                THEN << JoinSentences(current_chunk) >> ELSE << >>
    IN  IF sentences = << >> THEN emit
        ELSE LET sentence == Head(sentences)
                 sentence_length == LineLen(sentence)
             IN  IF current_length + sentence_length > chunk_size
                      /\ current_chunk # << >>
                 THEN emit \o CharacterChunks(Tail(sentences), << sentence >>,
                                              sentence_length, chunk_size,
                                              min_chunk_size)
                 ELSE CharacterChunks(Tail(sentences),
                                      Append(current_chunk, sentence),
                                      current_length + sentence_length,
                                      chunk_size, min_chunk_size)

_character_based_chunking(t, chunk_size, min_chunk_size) ==
    CharacterChunks(SplitSentences(Flatten(t), << >>), << >>, 0, chunk_size,
                    min_chunk_size)

\* tokenizer.model_max_length (line 17)
ModelMaxLength == 512

RECURSIVE Encode(_)
\* tokenizer.encode(text): a token per word and per punctuation mark
Encode(words) ==
    IF words = << >> THEN << >>
    ELSE LET word == Head(words)
         IN  << Word(word.stem, "") >>
               \o (IF word.mark # "" THEN << Word("", word.mark) >> ELSE << >>)
               \o Encode(Tail(words))

RECURSIVE Decode(_)
\* tokenizer.decode(chunk_tokens).strip(): the words of the decoded line
Decode(tokens) ==
    IF tokens = << >> THEN << >>
    ELSE IF Len(tokens) >= 2 /\ tokens[1].stem # ""
              /\ tokens[2].stem = "" /\ tokens[2].mark \in Terminators
    THEN << Word(tokens[1].stem, tokens[2].mark) >>
           \o Decode(SubSeq(tokens, 3, Len(tokens)))
    ELSE << tokens[1] >> \o Decode(Tail(tokens))

MinDecodedLength == 10

RECURSIVE TokenWindows(_, _, _, _)
\* the loop of lines 469-486 of _token_chunk_piece, from index start
TokenWindows(tokens, start, chunk_size, chunk_overlap) ==
    LET n == Len(tokens)
        end == IF start + chunk_size <= n THEN start + chunk_size ELSE n
        chunk_text == Decode(SubSeq(tokens, start + 1, end))
        kept == IF LineLen(chunk_text) > MinDecodedLength
                THEN << << chunk_text >> >> ELSE << >>
        next == IF end - chunk_overlap < 0 THEN 0 ELSE end - chunk_overlap
    IN  IF end = n THEN kept
        ELSE kept \o TokenWindows(tokens, next, chunk_size, chunk_overlap)

\* the min_chunk_size handed on by line 460
PieceMinChunkSize == 50

\* _token_chunk_piece(text, chunk_size, chunk_overlap)
_token_chunk_piece(t, chunk_size, chunk_overlap, encode_raises) ==
    IF encode_raises
    THEN _character_based_chunking(t, chunk_size * 4, PieceMinChunkSize)
    ELSE LET all == Encode(Flatten(t))
             tokens == SubSeq(all, 1, IF Len(all) <= ModelMaxLength
                                      THEN Len(all) ELSE ModelMaxLength)
         IN  IF tokens = << >> THEN << >>
             ELSE TokenWindows(tokens, 0, chunk_size, chunk_overlap)

max_chars_per_piece == 3000

\* _enhanced_token_chunking for a text of at most max_chars_per_piece
\* characters (line 451); the texts of the model are all that short
_enhanced_token_chunking(t, chunk_size, chunk_overlap, encode_raises) ==
    _token_chunk_piece(t, chunk_size, chunk_overlap, encode_raises)

\* lines 305-308: the chunk size and the overlap used
LowQualityBelow == 50
ShrinkSizeHalving(chunk_size) == chunk_size \div 2
ShrinkSize(chunk_size) == IF chunk_size <= 500 THEN chunk_size ELSE 500
ShrinkOverlap(chunk_overlap) ==
    IF chunk_overlap <= 50 THEN chunk_overlap ELSE 50

\* the test of line 313
YieldedAlways(structured_chunks) == TRUE
Yielded(structured_chunks) == structured_chunks # << >>

\* the lines texts are made of
ChunkLines ==
    { BlankLine,
      << Word("FAQ", ".") >>,
      << Word("HEADING", ":"), Word("alpha", ""), Word("bravo", ""),
         Word("delta", ".") >>,
      << Word("alpha", ""), Word("bravo", ""), Word("delta", ".") >>,
      << Word("hotel", ""), Word("kilo", ""), Word("lima", "."),
         Word("is", ""), Word("spam", ""), Word("spam", "?") >>,
      << Word("spam", ""), Word("spam", ""), Word("spam", ".") >> }

ChunkTexts(n) == UNION { [ 1..k -> ChunkLines ] : k \in 1..n }

\* chunk_size, chunk_overlap and min_chunk_size of the calls; the overlap
\* is below the chunk size, without which the loop of lines 469-486 does
\* not end
ChunkParams ==
    { << 3, 1, 18 >>, << 10, 2, 18 >>, << 10, 2, 50 >>, << 500, 50, 50 >>,
      << 501, 51, 50 >>, << 800, 100, 50 >> }

\* the module global tokenizer: loaded, None (lines 18-20), loaded with an
\* encode that raises, or loaded with an exception leaving
\* _enhanced_token_chunking
Tokenizers == {"loaded", "None", "encode raises", "raises"}

InitChunk ==
    /\ ScraperIdle /\ AnalyzerIdle /\ SelectorIdle
    /\ CallsIdle
    /\ CleanerIdle /\ ApiIdle /\ RunIdle
    /\ \E t \in ChunkTexts(MaxChunkLines), p \in ChunkParams,
          s \in BOOLEAN, k \in Tokenizers :
          chunking = [ pc |-> "call", text |-> t, chunk_size |-> p[1],
                       chunk_overlap |-> p[2], min_chunk_size |-> p[3],
                       preserve_structure |-> s, tokenizer |-> k,
                       quality_score |-> 0 - 1,
                       effective_size |-> p[1], effective_overlap |-> p[2],
                       sections |-> << >>, structured_chunks |-> << >>,
                       tried |-> << >>, chunks |-> << >> ]

\* lines 293-311: the empty text returns at once; otherwise the text is
\* scored and the sizes are set
ChunkAnalyze ==
    /\ chunking.pc = "call"
    /\ IF chunking.text = EmptyText
       THEN chunking' = [ chunking EXCEPT !.pc = "done" ]
       ELSE LET quality == analyze_content_quality(Measures(chunking.text))
                score == quality.quality_score
                low == score < LowQualityBelow
            IN  chunking' =
                  [ chunking EXCEPT
                      !.pc = IF chunking.preserve_structure
                             THEN "structure" ELSE "fallback",
                      !.quality_score = score,
                      !.effective_size =
                          IF low THEN ShrinkSize(chunking.chunk_size)
                          ELSE chunking.chunk_size,
                      !.effective_overlap =
                          IF low THEN ShrinkOverlap(chunking.chunk_overlap)
                          ELSE chunking.chunk_overlap ]
    /\ UNCHANGED << scraper_vars, analyzer_vars, selector_vars, cleaning,
                    jobs, tasks, files, run, dedup, window, sending >>

\* lines 312-314
StructureAware ==
    /\ chunking.pc = "structure"
    /\ LET structured_chunks ==
               _structure_aware_chunking(chunking.text,
                                         chunking.effective_size)
       IN  chunking' =
             [ chunking EXCEPT
                 !.tried = Append(@, "structure"),
                 !.sections = Sections(chunking.text, << >>),
                 !.structured_chunks = structured_chunks,
                 !.pc = IF Yielded(structured_chunks) THEN "done"
                        ELSE "fallback",
                 !.chunks =
                     IF Yielded(structured_chunks)
                     THEN _validate_and_filter_chunks(structured_chunks,
                                                      chunking.min_chunk_size)
                     ELSE @ ]
    /\ UNCHANGED << scraper_vars, analyzer_vars, selector_vars, cleaning,
                    jobs, tasks, files, run, dedup, window, sending >>

\* lines 317-321
TokenChunking ==
    /\ chunking.pc = "fallback"
    /\ chunking.tokenizer # "None"
    /\ IF chunking.tokenizer = "raises"
       THEN chunking' = [ chunking EXCEPT !.tried = Append(@, "token"),
                                          !.pc = "character" ]
       ELSE chunking' =
              [ chunking EXCEPT
                  !.tried = IF chunking.tokenizer = "encode raises"
                            THEN @ \o << "token", "character" >>
                            ELSE Append(@, "token"),
                  !.pc = "done",
                  !.chunks =
                      _enhanced_token_chunking(
                          chunking.text, chunking.effective_size,
                          chunking.effective_overlap,
                          chunking.tokenizer = "encode raises") ]
    /\ UNCHANGED << scraper_vars, analyzer_vars, selector_vars, cleaning,
                    jobs, tasks, files, run, dedup, window, sending >>

\* line 324
CharacterChunking ==
    /\ \/ chunking.pc = "character"
       \/ chunking.pc = "fallback" /\ chunking.tokenizer = "None"
    /\ chunking' =
         [ chunking EXCEPT
             !.tried = Append(@, "character"),
             !.pc = "done",
             !.chunks = _character_based_chunking(
                            chunking.text, chunking.effective_size * 4,
                            chunking.min_chunk_size) ]
    /\ UNCHANGED << scraper_vars, analyzer_vars, selector_vars, cleaning,
                    jobs, tasks, files, run, dedup, window, sending >>

NextChunk ==
    \/ ChunkAnalyze
    \/ StructureAware
    \/ TokenChunking
    \/ CharacterChunking

ChunkSpec == InitChunk /\ [][NextChunk]_vars

(***************************************************************************)
(* api_server.py: the job server.  start_pipeline adds a record to the    *)
(* module global jobs and a background task; the task is run_pipeline_job, *)
(* which runs in a worker thread beside the other tasks and the request    *)
(* handlers.                                                               *)
(***************************************************************************)

\* PipelineRequest.output_filename, line 39
DefaultOutputFilename == "golden_qna.xlsx"

\* the output_filename values of the requests
OutputFilenames == { DefaultOutputFilename, "report.xlsx" }

\* line 69
output_dir == "output"

\* os.path.join(output_dir, request.output_filename), line 72
OutputPath(output_filename) == << output_dir, output_filename >>

\* the value None of an output_file or a result_path
NoPath == << >>

\* d[k] = v and del d[k] on a dict
Put(dict, k, v) ==
    [ x \in DOMAIN dict \cup {k} |-> IF x = k THEN v ELSE dict[x] ]

Del(dict, k) == [ x \in DOMAIN dict \ {k} |-> dict[x] ]

\* str(uuid.uuid4()), line 111: an id that no job had before
NewJobId == Len(tasks) + 1

InitApi ==
    /\ ScraperIdle /\ AnalyzerIdle /\ SelectorIdle
    /\ CallsIdle
    /\ CleanerIdle /\ ChunkerIdle /\ RunIdle
    /\ jobs = << >>
    /\ tasks = << >>
    /\ files = << >>

\* lines 108-125: POST /api/pipeline/start
start_pipeline(output_filename) ==
    /\ Len(tasks) < MaxJobs
    /\ jobs' = Put(jobs, NewJobId,
                   [ status |-> "pending", output_file |-> NoPath,
                     completed_at |-> "None",
                     request |-> [ output_filename |-> output_filename ] ])
    /\ tasks' = Append(tasks, [ pc |-> "queued",
                                output_filename |-> output_filename,
                                output_path |-> NoPath,
                                result_path |-> NoPath ])
    /\ UNCHANGED << scraper_vars, analyzer_vars, selector_vars, cleaning,
                    chunking, files, run, dedup, window, sending >>

\* lines 65-72: the task starts.  When the job was deleted in between,
\* line 66 raises KeyError, and so does line 99 of the handler: the task
\* ends with that exception
RunPipelineJobBegin(job_id) ==
    /\ tasks[job_id].pc = "queued"
    /\ IF job_id \in DOMAIN jobs
       THEN /\ jobs' = [ jobs EXCEPT ![job_id].status = "running" ]
            /\ tasks' = [ tasks EXCEPT
                            ![job_id].pc = "running",
                            ![job_id].output_path =
                                OutputPath(tasks[job_id].output_filename) ]
       ELSE /\ tasks' = [ tasks EXCEPT ![job_id].pc = "crashed" ]
            /\ UNCHANGED jobs
    /\ UNCHANGED << scraper_vars, analyzer_vars, selector_vars, cleaning,
                    chunking, files, run, dedup, window, sending >>

\* lines 75-91: run_pipeline writes the export to output_path and returns
\* the path, or raises before it writes
RunPipeline(job_id, raises) ==
    /\ tasks[job_id].pc = "running"
    /\ IF raises
       THEN /\ tasks' = [ tasks EXCEPT ![job_id].pc = "raised" ]
            /\ UNCHANGED files
       ELSE /\ files' = Put(files, tasks[job_id].output_path, job_id)
            /\ tasks' = [ tasks EXCEPT
                            ![job_id].pc = "returned",
                            ![job_id].result_path =
                                tasks[job_id].output_path ]
    /\ UNCHANGED << scraper_vars, analyzer_vars, selector_vars, cleaning,
                    chunking, jobs, run, dedup, window, sending >>

\* line 99 without its assignment
RecordFailureKeepsStatus(job) == job
\* jobs[job_id]["status"] = "failed", line 99
RecordFailure(job) == [ job EXCEPT !.status = "failed" ]

\* lines 93-102, one assignment to the job record at a time, as the request
\* handlers can run between any two of them: after run_pipeline returned,
\* the status (line 93), the output_file (line 95) and completed_at (line
\* 96); after it raised, the status (line 99) and completed_at (line 102).
\* When the job was deleted in between, the assignment raises KeyError, and
\* so does line 99 of the handler: the task ends with that exception
RunPipelineJobEnd(job_id) ==
    LET at == tasks[job_id].pc
    IN  /\ at \in {"returned", "line 95", "line 96", "raised", "line 102"}
        /\ IF job_id \notin DOMAIN jobs
           THEN /\ tasks' = [ tasks EXCEPT ![job_id].pc = "crashed" ]
                /\ UNCHANGED jobs
           ELSE /\ tasks' = [ tasks EXCEPT ![job_id].pc =
                                 CASE at = "returned" -> "line 95"
                                   [] at = "line 95" -> "line 96"
                                   [] at = "raised" -> "line 102"
                                   [] OTHER -> "done" ]
                /\ jobs' = [ jobs EXCEPT ![job_id] =
                               CASE at = "returned" ->
                                      [ @ EXCEPT !.status = "completed" ]
                                 [] at = "line 95" ->
                                      [ @ EXCEPT !.output_file =
                                            tasks[job_id].result_path ]
                                 [] at = "raised" -> RecordFailure(@)
                                 [] OTHER ->
                                      [ @ EXCEPT !.completed_at = "set" ] ]
        /\ UNCHANGED << scraper_vars, analyzer_vars, selector_vars, cleaning,
                        chunking, files, run, dedup, window, sending >>

\* lines 135-153: GET /api/pipeline/download/{job_id}: the status code, and
\* for 200 the job that wrote the file sent
download_result(job_id) ==
    IF job_id \notin DOMAIN jobs THEN << 404 >>
    ELSE IF jobs[job_id].status # "completed" THEN << 400 >>
    ELSE IF \/ jobs[job_id].output_file = NoPath
            \/ jobs[job_id].output_file \notin DOMAIN files THEN << 404 >>
    ELSE << 200, files[jobs[job_id].output_file] >>

\* lines 160-179: DELETE /api/pipeline/{job_id}
delete_job(job_id) ==
    /\ job_id \in DOMAIN jobs
    /\ LET output_file == jobs[job_id].output_file
       IN  files' = IF output_file # NoPath /\ output_file \in DOMAIN files
                    THEN Del(files, output_file)
                    ELSE files
    /\ jobs' = Del(jobs, job_id)
    /\ UNCHANGED << scraper_vars, analyzer_vars, selector_vars, cleaning,
                    chunking, tasks, run, dedup, window, sending >>

NextApi ==
    \/ \E output_filename \in OutputFilenames : start_pipeline(output_filename)
    \/ \E job_id \in DOMAIN tasks : RunPipelineJobBegin(job_id)
    \/ \E job_id \in DOMAIN tasks, raises \in BOOLEAN :
          RunPipeline(job_id, raises)
    \/ \E job_id \in DOMAIN tasks : RunPipelineJobEnd(job_id)
    \/ \E job_id \in DOMAIN jobs : delete_job(job_id)

ApiSpec == InitApi /\ [][NextApi]_vars

(***************************************************************************)
(* enhanced_chunk_text as one function, for its callers: the steps of       *)
(* ChunkAnalyze, StructureAware, TokenChunking and CharacterChunking, one   *)
(* after the other.                                                        *)
(***************************************************************************)

enhanced_chunk_text(t, chunk_size, chunk_overlap, min_chunk_size, preserve_structure, loaded) ==
    IF t = EmptyText THEN << >>
    ELSE
      LET quality == analyze_content_quality(Measures(t))
          low == quality.quality_score < LowQualityBelow
          size == IF low THEN ShrinkSize(chunk_size) ELSE chunk_size
          overlap == IF low THEN ShrinkOverlap(chunk_overlap)
                     ELSE chunk_overlap
          structured_chunks == _structure_aware_chunking(t, size)
      IN  IF preserve_structure /\ Yielded(structured_chunks)
          THEN _validate_and_filter_chunks(structured_chunks, min_chunk_size)
          ELSE IF loaded \in {"loaded", "encode raises"}
          THEN _enhanced_token_chunking(t, size, overlap,
                                        loaded = "encode raises")
          ELSE _character_based_chunking(t, size * 4, min_chunk_size)

(***************************************************************************)
(* main.py: run_pipeline, step by step.  The record run holds the          *)
(* arguments, the locals, and what the run has done to the world: whether  *)
(* a vector index was built, whether generate_qa was called, and the path  *)
(* of the export written.                                                  *)
(***************************************************************************)

\* chunk_text(cleaned, chunk_size=800, chunk_overlap=100), line 77, and the
\* default min_chunk_size of enhanced_chunk_text, line 288
PipelineChunkSize == 800
PipelineChunkOverlap == 100
DefaultMinChunkSize == 50

\* the pages scraped: texts of up to MaxPageLines lines
PageTexts == ChunkTexts(MaxPageLines)

\* the values of k of the runs; 30 is the default of the API, line 40
TopK == {0, 30}

\* the values of output_format; line 134 compares output_format.lower()
OutputFormats == {"excel", "Text"}

\* output_format.lower() == "text", line 134
IsTextFormat(output_format) == output_format \in {"text", "Text", "TEXT"}

\* not chunks, line 78
NoChunksNever(chunks) == FALSE
NoChunks(chunks) == chunks = << >>

\* the messages of the errors a run ends with
NoChunksProduced == "No chunks produced from the page content."
NoResults == "Retriever returned no results."

InitPipeline ==
    /\ ScraperIdle /\ AnalyzerIdle /\ SelectorIdle
    /\ CallsIdle
    /\ CleanerIdle /\ ChunkerIdle /\ ApiIdle
    /\ \E page \in PageTexts, k \in TopK, output_format \in OutputFormats,
          validate_content \in BOOLEAN, with_test_cases \in BOOLEAN,
          test_cases_llm \in BOOLEAN, loaded \in Tokenizers :
          run = [ pc |-> "call", page |-> page, k |-> k,
                  output |-> OutputPath(DefaultOutputFilename),
                  output_format |-> output_format,
                  validate_content |-> validate_content,
                  with_test_cases |-> with_test_cases,
                  test_cases_llm |-> test_cases_llm,
                  tokenizer |-> loaded,
                  raw |-> << >>, quality |-> 0 - 1, cleaned |-> << >>,
                  cleaned_quality |-> 0 - 1, chunks |-> << >>,
                  scored |-> 0, items |-> 0, validated_items |-> 0,
                  testcases |-> "None", error |-> "None",
                  index_built |-> FALSE, generator_called |-> FALSE,
                  path |-> NoPath ]

\* the other components do not move while run_pipeline runs
RunOnly ==
    UNCHANGED << scraper_vars, analyzer_vars, selector_vars, cleaning,
                 chunking, jobs, tasks, files, dedup, window, sending >>

\* lines 35-57: the page is scraped, or scrape_url raises ScraperError; with
\* validate_content the raw text is scored
Scrape(raises) ==
    /\ run.pc = "call"
    /\ IF raises
       THEN run' = [ run EXCEPT !.pc = "raised", !.error = "ScraperError" ]
       ELSE run' =
              [ run EXCEPT
                  !.pc = "scraped",
                  !.raw = run.page,
                  !.quality =
                      IF run.validate_content
                      THEN analyze_content_quality(
                               Measures(run.page)).quality_score
                      ELSE @ ]
    /\ RunOnly

\* lines 61-74
Clean ==
    /\ run.pc = "scraped"
    /\ LET cleaned == aggressive_clean_text(run.raw)
       IN  run' =
             [ run EXCEPT
                 !.pc = "cleaned",
                 !.cleaned = cleaned,
                 !.cleaned_quality =
                     IF run.validate_content
                     THEN analyze_content_quality(
                              Measures(cleaned)).quality_score
                     ELSE @ ]
    /\ RunOnly

\* lines 77-79
Chunk ==
    /\ run.pc = "cleaned"
    /\ LET chunks == enhanced_chunk_text(run.cleaned, PipelineChunkSize,
                                         PipelineChunkOverlap,
                                         DefaultMinChunkSize, TRUE,
                                         run.tokenizer)
       IN  run' = IF NoChunks(chunks)
                  THEN [ run EXCEPT !.pc = "raised", !.chunks = chunks,
                                    !.error = NoChunksProduced ]
                  ELSE [ run EXCEPT !.pc = "chunked", !.chunks = chunks ]
    /\ RunOnly

\* lines 81-83, and build_index, vector_store.py lines 18-25
BuildIndex ==
    /\ run.pc = "chunked"
    /\ run' = IF run.chunks = << >>
              THEN [ run EXCEPT
                       !.pc = "raised",
                       !.error = "No chunks provided to build the index." ]
              ELSE [ run EXCEPT !.pc = "indexed", !.index_built = TRUE ]
    /\ RunOnly

\* lines 86-90, and query, vector_store.py lines 27-37: min(k, len(texts))
\* results
Retrieve ==
    /\ run.pc = "indexed"
    /\ LET scored == IF run.k <= Len(run.chunks) THEN run.k
                     ELSE Len(run.chunks)
       IN  run' = IF scored = 0
                  THEN [ run EXCEPT !.pc = "raised", !.error = NoResults ]
                  ELSE [ run EXCEPT !.pc = "retrieved", !.scored = scored ]
    /\ RunOnly

\* lines 112-113: generate_qa returns items or raises GenerationError
Generate(raises, items) ==
    /\ run.pc = "retrieved"
    /\ run' = IF raises
              THEN [ run EXCEPT !.pc = "raised", !.generator_called = TRUE,
                                !.error = "GenerationError" ]
              ELSE [ run EXCEPT !.pc = "generated",
                                !.generator_called = TRUE,
                                !.items = items ]
    /\ RunOnly

\* lines 116-131: validate_qa_format keeps some of the items; with
\* with_test_cases the test cases are generated, by the LLM or, when that is
\* not asked for or fails, by the rules
Validate(validated_items, llm_fails) ==
    /\ run.pc = "generated"
    /\ validated_items <= run.items
    /\ run' = [ run EXCEPT
                  !.pc = "validated",
                  !.validated_items = validated_items,
                  !.testcases =
                      IF ~run.with_test_cases THEN "None"
                      ELSE IF run.test_cases_llm /\ ~llm_fails THEN "llm"
                      ELSE "rule_based" ]
    /\ RunOnly

\* lines 133-141: save_qa_as_text writes the file whatever the items are;
\* the Excel exporters raise ValueError when there is no item
Export ==
    /\ run.pc = "validated"
    /\ run' = IF ~IsTextFormat(run.output_format) /\ run.validated_items = 0
              THEN [ run EXCEPT !.pc = "raised",
                                !.error = "No items to export" ]
              ELSE [ run EXCEPT !.pc = "done", !.path = run.output ]
    /\ RunOnly

NextPipeline ==
    \/ \E raises \in BOOLEAN : Scrape(raises)
    \/ Clean
    \/ Chunk
    \/ BuildIndex
    \/ Retrieve
    \/ \E raises \in BOOLEAN, items \in 0..MaxItems : Generate(raises, items)
    \/ \E validated_items \in 0..MaxItems, llm_fails \in BOOLEAN :
          Validate(validated_items, llm_fails)
    \/ Export

PipelineSpec == InitPipeline /\ [][NextPipeline]_vars

(***************************************************************************)
(* generator.py: _deduplicate_questions.  A question is a sequence of      *)
(* words, each a lower-case stem, a flag for a leading capital and a       *)
(* trailing punctuation mark; an answer is the length of its stripped text *)
(* and the length of the whitespace around it.                             *)
(***************************************************************************)
QWord(stem, cap, mark) == [stem |-> stem, cap |-> cap, mark |-> mark]
Plain(stems) == [ i \in 1..Len(stems) |-> QWord(stems[i], FALSE, "") ]
Answer(len, pad) == [len |-> len, pad |-> pad]
Item(question, answer) ==
    [question |-> question, expected_response |-> answer]

\* _normalize_question(question): the words of the normalized string
_normalize_question(question) ==
    [ i \in 1..Len(question) |-> question[i].stem ]

\* set(norm.split())
WordSet(norm) == { norm[i] : i \in 1..Len(norm) }

\* the threshold of _questions_similar, 0.8, as a fraction
ThresholdNum == 4
ThresholdDen == 5

\* _questions_similar(q1, q2)
_questions_similar(q1, q2) ==
    LET words1 == WordSet(_normalize_question(q1))
        words2 == WordSet(_normalize_question(q2))
        intersection == Cardinality(words1 \cap words2)
        union == Cardinality(words1 \cup words2)
    IN  /\ words1 # {}
        /\ words2 # {}
        /\ intersection * ThresholdDen >= union * ThresholdNum

\* len(s.strip()) and len(s) of an answer
StrippedLen(answer) == answer.len
RawLen(answer) == answer.len + answer.pad

\* the index of the first item of deduplicated similar to question, or 0
RECURSIVE FirstSimilar(_, _, _)
FirstSimilar(deduplicated, question, i) ==
    IF i > Len(deduplicated) THEN 0
    ELSE IF _questions_similar(question, deduplicated[i].question) THEN i
    ELSE FirstSimilar(deduplicated, question, i + 1)

\* one pass of the loop of lines 58-76
DedupStep(deduplicated, item) ==
    LET i == FirstSimilar(deduplicated, item.question, 1)
    IN  IF item.question = << >> \/ StrippedLen(item.expected_response) = 0
        THEN deduplicated
        ELSE IF i = 0 THEN Append(deduplicated, item)
        ELSE IF StrippedLen(item.expected_response)
                  > RawLen(deduplicated[i].expected_response)
        THEN [ deduplicated EXCEPT ![i] = item ]
        ELSE deduplicated

RECURSIVE DedupLoop(_, _)
DedupLoop(deduplicated, items) ==
    IF items = << >> THEN deduplicated
    ELSE DedupLoop(DedupStep(deduplicated, Head(items)), Tail(items))

\* _deduplicate_questions(items)
_deduplicate_questions(items) == DedupLoop(<< >>, items)

\* the questions and the answers of the items handed in
Questions ==
    { Plain(<< "alpha", "bravo", "delta", "hotel" >>),
      << QWord("alpha", TRUE, ""), QWord("bravo", FALSE, ""),
         QWord("delta", FALSE, ""), QWord("hotel", FALSE, "?") >>,
      Plain(<< "alpha", "bravo", "delta", "hotel", "kilo" >>),
      Plain(<< "alpha", "bravo", "delta", "kilo" >>),
      << >> }
Answers == { Answer(0, 1), Answer(1, 0), Answer(2, 0), Answer(1, 2) }
ItemLists(n) ==
    UNION { [ 1..k -> { Item(q, a) : q \in Questions, a \in Answers } ]
            : k \in 0..n }

InitDedup ==
    /\ ScraperIdle /\ AnalyzerIdle /\ SelectorIdle
    /\ CleanerIdle /\ ChunkerIdle /\ ApiIdle /\ RunIdle
    /\ window = NoWindow /\ sending = NoSending
    /\ \E items \in ItemLists(MaxDedupItems) :
          dedup = [pc |-> "call", items |-> items]

DeduplicateQuestions ==
    /\ dedup.pc = "call"
    /\ dedup' = [pc |-> "done", items |-> dedup.items,
                 deduplicated |-> _deduplicate_questions(dedup.items)]
    /\ UNCHANGED << scraper_vars, analyzer_vars, selector_vars, cleaning,
                    chunking, jobs, tasks, files, run, window, sending >>

DedupSpec == InitDedup /\ [][DeduplicateQuestions]_vars

(***************************************************************************)
(* enhanced_preprocess.py: the loop of _token_chunk_piece, one pass of the *)
(* while statement a step (preprocess.py, _chunk_text_piece, has the same  *)
(* loop).  Only the number of tokens decides where the loop goes: n is     *)
(* len(tokens), covered the largest end of a window decoded so far, and    *)
(* encoded tells that tokenizer.encode returned.                           *)
(***************************************************************************)
InitWindow ==
    /\ ScraperIdle /\ AnalyzerIdle /\ SelectorIdle
    /\ CleanerIdle /\ ChunkerIdle /\ ApiIdle /\ RunIdle
    /\ dedup = NoDedup /\ sending = NoSending
    /\ \E n \in 0..MaxTokens, chunk_size \in 1..MaxChunkSize,
          chunk_overlap \in 0..MaxChunkSize :
          window = [pc |-> "call", n |-> n, chunk_size |-> chunk_size,
                    chunk_overlap |-> chunk_overlap, encoded |-> FALSE,
                    start |-> 0, covered |-> 0]

\* lines 456-467: encode, the early returns, start = 0
TokenChunkPieceEnter(encode_raises) ==
    /\ window.pc = "call"
    /\ window' = [ window EXCEPT
                     !.encoded = ~encode_raises,
                     !.pc = IF encode_raises \/ window.n = 0
                            THEN "done" ELSE "loop" ]
    /\ UNCHANGED << scraper_vars, analyzer_vars, selector_vars, cleaning,
                    chunking, jobs, tasks, files, run, dedup, sending >>

\* the start of the next window (lines 484-486)
NextStart(end, chunk_overlap) ==
    IF end - chunk_overlap < 0 THEN 0 ELSE end - chunk_overlap

\* lines 469-486: one pass of the loop
WindowStep ==
    /\ window.pc = "loop"
    /\ window.start < window.n
    /\ LET end == IF window.start + window.chunk_size <= window.n
                  THEN window.start + window.chunk_size ELSE window.n
       IN  window' = [ window EXCEPT
                         !.covered = IF end > @ THEN end ELSE @,
                         !.pc = IF end = window.n THEN "done" ELSE "loop",
                         !.start = IF end = window.n THEN @
                                   ELSE NextStart(end, window.chunk_overlap) ]
    /\ UNCHANGED << scraper_vars, analyzer_vars, selector_vars, cleaning,
                    chunking, jobs, tasks, files, run, dedup, sending >>

\* start stays below n at line 486 (end < n there), so the test of line 469
\* never ends the loop: it ends at the break of line 482
NextWindow ==
    \/ \E encode_raises \in BOOLEAN : TokenChunkPieceEnter(encode_raises)
    \/ WindowStep

\* the interpreter runs the function to its end if it has one
WindowSpec ==
    InitWindow /\ [][NextWindow]_vars /\ WF_vars(NextWindow)

(***************************************************************************)
(* generator.py: the three API calls of generate_qa (lines 402-481).       *)
(* sending.context is the local variable context of generate_qa,           *)
(* sending.sent the user prompts handed to client.chat.completions.create. *)
(***************************************************************************)
\* len of the system messages of lines 428 and 466
SystemRetryLen == 78
SystemTextLen == 40

\* len of alt_prompt (lines 445-462) for an empty query and context
AltTemplateLen == 695

\* the variable context at line 402: the joined chunks (line 371), cut at
\* line 395 if the final check found the prompt too large
ContextAtCall(n, q, m) ==
    IF Prepared(n, q, m).total_input_tokens > TOKEN_LIMIT_FALLBACK
    THEN generate_qa(n, q, m).kept
    ELSE Full(n)

\* a user prompt of prompt_len characters embedding the context kept, sent
\* with a system message of system_len characters
Sent(template, kept, prompt_len, system_len) ==
    [ template |-> template, kept |-> kept,
      input_tokens |-> _count_tokens(prompt_len) + _count_tokens(system_len) ]

\* the prompt of attempts 1 and 2, and alt_prompt of attempt 3
MainPrompt(system_len) ==
    Sent(sending.prepared.template, sending.prepared.kept,
         PromptLen(sending.prepared.template, sending.prepared.kept,
                   query_len),
         system_len)
AltPrompt ==
    Sent("text", sending.context,
         AltTemplateLen + EmbeddedLen(sending.context) + query_len,
         SystemTextLen)

InitSend ==
    /\ ScraperIdle /\ AnalyzerIdle
    /\ CleanerIdle /\ ChunkerIdle /\ ApiIdle /\ RunIdle
    /\ dedup = NoDedup /\ window = NoWindow
    /\ query_len \in QueryLens
    /\ context_len \in ContextLens(query_len)
    /\ model \in Models
    /\ decision = NoDecision
    /\ sending = NoSending

SendUnchanged ==
    UNCHANGED << scraper_vars, analyzer_vars, cleaning, chunking, jobs,
                 tasks, files, run, dedup, window, context_len, query_len,
                 model, decision >>

\* lines 364-400: generate_qa up to the first API call
GenerateQaPrepare ==
    /\ sending = NoSending
    /\ sending' = [ pc |-> "attempt 1",
                    prepared |-> generate_qa(context_len, query_len, model),
                    context |-> ContextAtCall(context_len, query_len, model),
                    sent |-> << >> ]
    /\ SendUnchanged

\* lines 403-422: JSON mode; fails if the call or the parse raises
Attempt1(fails) ==
    /\ sending.pc = "attempt 1"
    /\ sending' = [ sending EXCEPT
          !.sent = Append(@, MainPrompt(
                       IF sending.prepared.template = "standard"
                       THEN SystemStandardLen ELSE SystemInstructLen)),
          !.pc = IF fails THEN "attempt 2" ELSE "returned" ]
    /\ SendUnchanged

\* lines 422-442: the retry without response_format; an exception of the
\* call goes to the handler of line 479, one of the parse to attempt 3
Attempt2(outcome) ==
    /\ sending.pc = "attempt 2"
    /\ sending' = [ sending EXCEPT
          !.sent = Append(@, MainPrompt(SystemRetryLen)),
          !.pc = CASE outcome = "parsed" -> "returned"
                   [] outcome = "call raises" -> "raised"
                   [] outcome = "parse raises" -> "attempt 3" ]
    /\ SendUnchanged

\* lines 442-481: the Q:/A: text fallback; an exception goes to line 479
Attempt3(fails) ==
    /\ sending.pc = "attempt 3"
    /\ sending' = [ sending EXCEPT
          !.sent = Append(@, AltPrompt),
          !.pc = IF fails THEN "raised" ELSE "returned" ]
    /\ SendUnchanged

NextSend ==
    \/ GenerateQaPrepare
    \/ \E fails \in BOOLEAN : Attempt1(fails)
    \/ \E outcome \in {"parsed", "call raises", "parse raises"} :
          Attempt2(outcome)
    \/ \E fails \in BOOLEAN : Attempt3(fails)

SendSpec == InitSend /\ [][NextSend]_vars

(***************************************************************************)
(* Properties                                                              *)
(***************************************************************************)
Max(a, b) == IF a >= b THEN a ELSE b

\* the crawl part of enhanced_scrape_url has been entered
Crawling == pc \in {"loop", "done"} /\ crawl

\* the page a URL names: the URL without its fragment
Normalize(u) == [u EXCEPT !.frag = ""]

\* the host of a URL (the modelled netlocs carry no port or user part)
Host(u) == u.netloc

\* C1 (as stated): during a crawl the visited set never holds more than
\* max_pages entries, for any value of max_pages.
C1_VisitedWithinBudgetAnyMaxPages ==
    Crawling => Cardinality(visited) <= max_pages

\* C1 (amended): during a crawl the visited set never holds more than
\* max(max_pages, 1) entries: the seed is always in it, and it never exceeds
\* max_pages when max_pages >= 1.
C1_VisitedWithinBudget ==
    Crawling => Cardinality(visited) <= Max(max_pages, 1)

\* C1 witness: a crawl over a graph with a link back to the seed ended with
\* the visited set exactly at the budget while links were still queued
C1_Witness ==
    /\ pc = "done" /\ crawl
    /\ max_pages >= 2
    /\ Cardinality(visited) = max_pages
    /\ frontier # << >>
    /\ \E i \in 1..Len(first_page_links) : first_page_links[i] = SeedUrl

\* C2: no two URLs of the same page (equal up to the fragment) are both in
\* the visited set, so no page is crawled twice.
C2_NoPageVisitedTwice ==
    \A u \in visited : \A v \in visited :
        Normalize(u) = Normalize(v) => u = v


\* C3: the crawl always ends (the call returns), and it ends exactly
\* when the frontier is empty or the visited set has reached the page
\* budget; nothing else bounds the loop.
C3_CrawlTerminates ==
    /\ <>(pc = "done")
    /\ [](Crawling /\ pc = "done" =>
            (frontier = << >> \/ Cardinality(visited) >= max_pages))
    /\ [][pc = "loop" /\ pc' # "loop" =>
            (frontier = << >> \/ Cardinality(visited) >= max_pages)]_vars

\* C3 witness: a crawl that fetched pages has ended because the budget was
\* reached, with entries left in the queue
C3_Witness ==
    /\ pc = "done" /\ crawl
    /\ frontier # << >>
    /\ Cardinality(visited) = max_pages
    /\ requested # {}


\* C4: in the scenario (max_pages = 5, the seed links to 20 same-domain
\* pages in a cycle) the crawl returns with exactly 5 entries in the
\* visited set.
C4_ScenarioVisitsExactlyFive ==
    pc = "done" => Cardinality(visited) = 5

\* C5 (as stated): every entry in the frontier has depth <= max_depth, for
\* every max_depth including 0.
C5_QueuedDepthWithinMaxDepth ==
    \A i \in 1..Len(frontier) : frontier[i].depth <= max_depth

\* C5 (amended): every entry in the frontier has depth <= max(max_depth, 1):
\* the entries seeded from the seed page's links have depth 1 whatever
\* max_depth is, the entries enqueued by the loop have depth <= max_depth.
C5_QueuedDepthBound ==
    \A i \in 1..Len(frontier) : frontier[i].depth <= Max(max_depth, 1)

\* C5 witness: a link found on a crawled page is queued at depth max_depth
C5_Witness ==
    /\ pc = "loop"
    /\ max_depth = 2
    /\ requested # {}
    /\ \E i \in 1..Len(frontier) : frontier[i].depth = max_depth

\* C6: during a crawl the frontier never holds more than max_pages entries.
C6_QueueWithinBudget ==
    Crawling => Len(frontier) <= max_pages

\* C7: with same_domain_only every URL accepted into the visited set or
\* requested by the crawl has the seed's host, and popping an off-domain
\* entry changes neither the visited set, nor the requests made, nor the
\* aggregate.
C7_SameDomainOnly ==
    /\ [](same_domain_only =>
            \A u \in visited \cup requested : Host(u) = Host(SeedUrl))
    /\ [][ ( /\ pc = "loop"
             /\ same_domain_only
             /\ frontier # << >>
             /\ Host(Head(frontier).url) # Host(SeedUrl) )
           => UNCHANGED << visited, requested, aggregated_texts >> ]_vars

\* C7 witness: a crawl with same_domain_only whose seed page links to another
\* host has emptied its queue below the budget after fetching a page
C7_Witness ==
    /\ pc = "done" /\ crawl /\ same_domain_only
    /\ frontier = << >>
    /\ requested # {}
    /\ Cardinality(visited) < max_pages
    /\ \E i \in 1..Len(first_page_links) :
          Host(first_page_links[i]) # Host(SeedUrl)

\* the strategies in priority order, as the chain is described
ExpectedOrder ==
    IF STEALTH_AVAILABLE
    THEN << "networkidle", "domcontentloaded", "load", "stealth", "requests" >>
    ELSE << "networkidle", "domcontentloaded", "load", "requests" >>

IsPrefix(a, b) ==
    Len(a) <= Len(b) /\ \A i \in 1..Len(a) : a[i] = b[i]

\* where the chain stands when the strategies of a have been tried in vain
PositionAfter(a) ==
    IF Len(a) = Len(ExpectedOrder) THEN "resolved"
    ELSE IF ExpectedOrder[Len(a) + 1] \in {"stealth", "requests"}
         THEN ExpectedOrder[Len(a) + 1]
         ELSE "playwright"

\* C8: the strategies are invoked in priority order, one per step; after an
\* attempt that raised or was rejected the next strategy in order is up
\* (both outcomes alike); once an attempt has passed, no strategy is invoked.
C8_StrategiesInPriorityOrder ==
    /\ [](IsPrefix(attempts, ExpectedOrder))
    /\ [][Len(attempts') <= Len(attempts) + 1]_vars
    /\ [][ (attempts' # attempts /\ last_outcome' \in {"Error", "QualityRejected"})
           => /\ pc' = PositionAfter(attempts')
              /\ (pc' = "playwright" => strategy' = Len(attempts') + 1) ]_vars
    /\ [][passed # {} => attempts' = attempts]_vars

\* C8 witness: the three rendered attempts failed, the stealth fetch raised,
\* and the plain HTTP fetch is up next
C8_Witness ==
    /\ pc = "requests"
    /\ Len(attempts) = 4
    /\ last_outcome = "Error"

\* C9: the call raises the exhaustion error only when every strategy was
\* tried and none passed, and it returns content (or goes on to crawl) only
\* when some attempt passed.
C9_ExhaustedIffNoAttemptPassed ==
    /\ pc = "failed" =>
          passed = {} /\ attempts = ExpectedOrder /\ main_content = Unset
    /\ pc \in {"done", "loop"} => passed # {} /\ main_content # Unset
    /\ pc = "resolved" => (main_content = Unset <=> passed = {})

\* C9 witness: all five strategies were tried, the last one was rejected by
\* the quality check, and the exhaustion error was raised
C9_Witness ==
    /\ pc = "failed"
    /\ Len(attempts) = 5
    /\ last_outcome = "QualityRejected"

C12_SeedLinksFromWinningAttempt ==
    Crawling => (first_page_links = << >> \/ links_from \in passed)

\* C13: a fetch of a crawled page that raises leaves the crawl in its loop,
\* with the failed entry popped and counted as visited and the aggregate
\* untouched; no step of the loop loses aggregated text or ends the call
\* with an error; and a call that failed (the seed fetch) made no crawl step.
C13_PageFailureSwallowed ==
    /\ [][ (pc = "loop" /\ fetch_errors' # fetch_errors)
           => /\ pc' = "loop"
              /\ aggregated_texts' = aggregated_texts
              /\ frontier' = Tail(frontier)
              /\ visited' = visited \cup {Head(frontier).url} ]_vars
    /\ [][ pc = "loop"
           => /\ pc' \in {"loop", "done"}
              /\ IsPrefix(aggregated_texts, aggregated_texts') ]_vars
    /\ [](pc = "failed" =>
            /\ visited = {} /\ requested = {} /\ fetch_errors = {}
            /\ frontier = << >> /\ aggregated_texts = << >>)

\* C13 witness: the fetch of the first link of the seed page raised, the
\* second link was then fetched and its text aggregated after the seed's,
\* and the crawl returned
C13_Witness ==
    /\ pc = "done" /\ crawl
    /\ Len(first_page_links) = 2
    /\ first_page_links[1] \in fetch_errors
    /\ aggregated_texts = << SeedUrl, first_page_links[2] >>

\* members of a sequence
Range(q) == { q[i] : i \in 1..Len(q) }

\* C14: every analysis returns a quality_score in [0,100]; for an input
\* without content (the empty text, or a text holding no word) it returns
\* score 0 with the issue "Empty content".
C14_ScoreInRangeAndEmptyScoresZero ==
    report # NoReport =>
        /\ report.quality_score \in 0..100
        /\ text.word_count = 0 =>
              /\ report.quality_score = 0
              /\ "Empty content" \in Range(report.issues)

\* the sum of the bonuses a text earns, with the length bonus from at_least
\* (TRUE: char_count >= 500, FALSE: char_count > 500), capped at 100
BonusSum(t, at_least) ==
    LET w == Max(t.word_count, 1)
        total ==
            (IF (at_least /\ t.char_count >= 500)
                  \/ (~at_least /\ t.char_count > 500) THEN 20 ELSE 0)
          + (IF t.word_count > 0 /\ 2 * t.unique_words > t.word_count
             THEN 30 ELSE 0)
          + (IF 10 * t.most_common_freq <= 3 * w THEN 25 ELSE 0)
          + (IF t.line_count > 5 THEN 15 ELSE 0)
          + (IF 3 * w < t.word_chars /\ t.word_chars < 8 * w THEN 10 ELSE 0)
    IN  IF total > 100 THEN 100 ELSE total

\* C15 (as stated): for a non-empty text the score is the capped sum of the
\* five bonuses, each awarded on its own condition, the length bonus iff
\* char_count >= 500.
C15_ScoreIsSumOfBonuses ==
    (report # NoReport /\ text.char_count > 0) =>
        report.quality_score = BonusSum(text, TRUE)

\* C15 (amended): the same, with the length bonus awarded iff
\* char_count > 500.
C15_ScoreIsSumOfBonusesAbove500 ==
    (report # NoReport /\ text.char_count > 0) =>
        report.quality_score = BonusSum(text, FALSE)

\* C15 witness: a text of exactly 500 characters whose words earn the four
\* other bonuses has been analysed
C15_Witness ==
    /\ report # NoReport
    /\ text.char_count = 500
    /\ report.quality_score = 80

\* a direct call of _select_model_and_prompt has returned
Selected == decision.via = "select"

\* the estimated context does not fit the larger model: the case of line 326
TooLargeForFallback ==
    decision.context_tokens + decision.query_tokens + PROMPT_OVERHEAD_INSTRUCT
        > TOKEN_LIMIT_FALLBACK

\* C16 (as stated): for every context too large for the larger model and
\* every query, the prompt returned is built from a truncated context and
\* its estimated token count is at most 12000.
C16_TruncatedPromptWithinCeiling ==
    (Selected /\ TooLargeForFallback) =>
        /\ decision.model = FALLBACK_MODEL
        /\ decision.final_tokens <= TOKEN_LIMIT_FALLBACK

\* C16 (amended): the same for every query of at most 11400 estimated
\* tokens (22801 characters); the context embedded is then shorter than the
\* original.
C16_TruncatedPromptWithinCeilingForQueriesThatFit ==
    (Selected /\ TooLargeForFallback /\ decision.query_tokens <= 11400) =>
        /\ decision.model = FALLBACK_MODEL
        /\ decision.final_tokens <= TOKEN_LIMIT_FALLBACK
        /\ EmbeddedLen(decision.kept) < context_len

\* C16 witness: the scenario, a context of 50000 estimated tokens with a
\* query of 50, has been cut to a prompt of 11921 estimated tokens
C16_Witness ==
    /\ Selected
    /\ decision.context_tokens = 50000 /\ decision.query_tokens = 50
    /\ decision.kept # Full(context_len)
    /\ decision.final_tokens = 11921

\* the three outcomes of the selection in the order of growing contexts
Regime(d, n) ==
    IF d.model = DEFAULT_MODEL THEN 1 ELSE IF d.kept = Full(n) THEN 2 ELSE 3

\* the selection at its call: which model and template, for any context
SelectionRule ==
    /\ (decision.context_tokens + decision.query_tokens
            + PROMPT_OVERHEAD_STANDARD <= TOKEN_LIMIT_PRIMARY)
         <=> (decision.model = DEFAULT_MODEL /\ decision.template = "standard")
    /\ decision.model = DEFAULT_MODEL => decision.kept = Full(context_len)
    /\ decision.model # DEFAULT_MODEL =>
          (decision.model = FALLBACK_MODEL /\ decision.template = "instruct")
    /\ (decision.model # DEFAULT_MODEL /\ ~TooLargeForFallback)
          => decision.kept = Full(context_len)
    /\ \A n \in ContextLens(query_len) :
          n >= context_len =>
             Regime(_select_model_and_prompt(n, query_len), n)
                >= Regime(decision, context_len)

\* C17 (as stated): primary model and standard prompt exactly when
\* context_tokens + query_tokens + 600 <= 3500, else the fallback model and
\* the instruct prompt, with the full context when context_tokens +
\* query_tokens + 400 <= 12000 and a shortened context otherwise; a longer
\* context never gets an earlier outcome.
C17_SelectionByThresholds ==
    Selected =>
        /\ SelectionRule
        /\ TooLargeForFallback => EmbeddedLen(decision.kept) < context_len

\* C17 (amended): the same, where the shortened context is shorter than the
\* original unless the original is empty.
C17_SelectionByThresholdsNonEmpty ==
    Selected =>
        /\ SelectionRule
        /\ (TooLargeForFallback /\ context_len > 0)
              => EmbeddedLen(decision.kept) < context_len

\* C17 witness: with the 17 character query of the tests, the longest
\* context that still gets the primary model has got it
C17_Witness ==
    /\ Selected
    /\ query_len = 17
    /\ decision.context_tokens + decision.query_tokens
          + PROMPT_OVERHEAD_STANDARD = TOKEN_LIMIT_PRIMARY
    /\ decision.model = DEFAULT_MODEL

\* C18: whenever the selection truncates a context, the context in the
\* prompt it returns keeps both ends of the original, 70% and 30% of the
\* allowed size, joined by the truncation marker.
C18_TruncationKeepsBothEnds ==
    (Selected /\ decision.kept # Full(context_len)) =>
        LET allowed == (TOKEN_LIMIT_FALLBACK - decision.query_tokens
                          - PROMPT_OVERHEAD_INSTRUCT) * 2
        IN  /\ decision.kept.marker
            /\ decision.kept.head = IntDiv(7 * allowed, 10)
            /\ decision.kept.tail = IntDiv(3 * allowed, 10)

\* a call of generate_qa with a model argument has prepared its prompt
Forced == decision.via = "generate_qa" /\ model # "None"

\* C19 (as stated): with a model argument the caller's model is used, the
\* prompt is built with the standard template, and the context is not
\* truncated, for every context size.
C19_CallerModelBypassesBudget ==
    Forced =>
        /\ decision.model = model
        /\ decision.template = "standard"
        /\ decision.kept = Full(context_len)

\* C19 (amended): with a model argument the caller's model is used, and the
\* prompt is built with the standard template from the whole context as
\* long as the estimate of prompt plus system message is at most 12000;
\* above that the first 22000 characters of the context are kept and the
\* prompt is rebuilt, with the instruct template iff the caller's model is
\* the fallback model.
C19_CallerModelBypassesSelection ==
    Forced =>
        LET estimate ==
                _count_tokens(StandardTemplateLen + context_len + query_len)
                  + _count_tokens(SystemStandardLen)
        IN  /\ decision.model = model
            /\ estimate <= TOKEN_LIMIT_FALLBACK =>
                  /\ decision.template = "standard"
                  /\ decision.kept = Full(context_len)
            /\ estimate > TOKEN_LIMIT_FALLBACK =>
                  /\ decision.template =
                        (IF model = FALLBACK_MODEL THEN "instruct"
                         ELSE "standard")
                  /\ decision.kept =
                        Kept(IF context_len < 22000 THEN context_len
                             ELSE 22000, FALSE, 0)

\* C19 witness: generate_qa was called with a model id of the caller's own
\* and a context of 100000 characters
C19_Witness ==
    /\ Forced
    /\ model = "custom/model"
    /\ context_len = 100000
    /\ decision.kept.head = 22000

\* C20: the estimate of an empty text is 0 and the estimate of a text of n
\* characters is within 1 of n / 3.
C20_TokenEstimateIsThirdOfLength ==
    decision # NoDecision =>
        /\ context_len = 0 => decision.context_tokens = 0
        /\ 3 * decision.context_tokens - context_len \in (0 - 3)..3


\* the call aggressive_clean_text(text) has returned
Cleaned == cleaning.pc \in {"cleaned", "again"}

\* the text has three blank lines in a row
ThreeBlankLines(t) ==
    \E i \in DOMAIN t :
       /\ i + 2 \in DOMAIN t
       /\ t[i] = BlankLine /\ t[i + 1] = BlankLine /\ t[i + 2] = BlankLine

\* C26: the text returned by aggressive_clean_text never contains more than
\* 2 consecutive blank lines, whatever duplicate or noise lines were removed
\* between the blank lines of the input
C26_AtMostTwoBlankLines ==
    Cleaned => ~ThreeBlankLines(cleaning.result)

\* the line holds an interrogative keyword or a question mark, or has more
\* than 5 words
QuestionOrLong(line) ==
    \/ \E i \in DOMAIN line : line[i].stem = "is" \/ line[i].mark = "?"
    \/ Len(line) >= 6

\* C27: when the text held after the cleaning pass scores below 30, only
\* its lines with an interrogative keyword, a '?' or more than 5 words are
\* returned, all of them and in their order; when it scores 30 or more it
\* is returned as it is
C27_SalvageBelowThreshold ==
    Cleaned /\ cleaning.text # EmptyText =>
       LET joined == Strip(Join(cleaning.final_lines))
       IN  IF cleaning.quality_score < 30
           THEN cleaning.result =
                   Join(SelectSeq(joined,
                          LAMBDA line : line # BlankLine /\ QuestionOrLong(line)))
           ELSE cleaning.result = joined

\* a low-scoring text of which the recovery pass kept a line and dropped
\* another one
C27_Witness ==
    /\ cleaning.pc = "cleaned"
    /\ cleaning.quality_score \in 0..29
    /\ cleaning.result # EmptyText
    /\ Len(cleaning.result) < Len(NonBlank(cleaning.final_lines))

\* C28: cleaning the output of aggressive_clean_text once more removes no
\* content: the second result has the words of the first, in their order
C28_SecondPassKeepsContent ==
    cleaning.pc = "again" =>
       Flatten(cleaning.second) = Flatten(cleaning.result)

\* the call enhanced_chunk_text(text, ...) has returned
Chunked == chunking.pc = "done"

\* C21: every chunk returned by enhanced_chunk_text has at least
\* min_chunk_size characters, whichever strategy produced it and whatever
\* the text and preserve_structure are
C21_ChunksAtLeastMinSize ==
    Chunked =>
       \A i \in DOMAIN chunking.chunks :
          TextLen(chunking.chunks[i]) >= chunking.min_chunk_size

\* the length of the longest sentence of a text, with the '. ' that joins
\* it to the next one
SentenceSlack(t) ==
    LET sentences == SplitSentences(Flatten(t), << >>)
    IN  2 + Max(0, CHOOSE m \in { LineLen(sentences[i]) : i \in DOMAIN sentences }
                                \cup {0} :
                        \A i \in DOMAIN sentences : LineLen(sentences[i]) <= m)

\* C22: no chunk returned is longer than the effective target size, which
\* is 4 characters for each of the effective chunk_size tokens, plus the
\* slack of one sentence
C22_ChunkWithinTargetPlusSentence ==
    Chunked =>
       \A i \in DOMAIN chunking.chunks :
          TextLen(chunking.chunks[i])
             <= 4 * chunking.effective_size + SentenceSlack(chunking.text)

\* the line stands in one of the chunks
Appears(line, chunks) ==
    \E i \in DOMAIN chunks : \E j \in DOMAIN chunks[i] :
       \E k \in 0..(Len(chunks[i][j]) - Len(line)) :
          SubSeq(chunks[i][j], k + 1, k + Len(line)) = line

\* the non-blank lines of the text that stand in a returned chunk
Covered ==
    LET lines == NonBlank(chunking.text)
    IN  { i \in DOMAIN lines : Appears(lines[i], chunking.chunks) }

\* C23: at least 90% of the non-blank lines of the input stand in a
\* returned chunk
C23_NinetyPercentOfLinesKept ==
    Chunked /\ chunking.text # EmptyText =>
       10 * Cardinality(Covered) >= 9 * Len(NonBlank(chunking.text))

\* C23, as the code has it: under structure-aware chunking every non-blank
\* line is in exactly one section, in the original order, and a section
\* within the size budget is returned as a chunk exactly when it has
\* min_chunk_size characters and scores above 20
C23_SectionsKeptIffValid ==
    Chunked /\ chunking.tried = << "structure" >> =>
       /\ Flatten(chunking.sections) = NonBlank(chunking.text)
       /\ \A i \in DOMAIN chunking.sections :
             LET section == chunking.sections[i]
                 quality == analyze_content_quality(Measures(section))
             IN  TextLen(section) <= 4 * chunking.effective_size =>
                    ((\E j \in DOMAIN chunking.chunks :
                          chunking.chunks[j] = section)
                       <=> (/\ TextLen(section) >= chunking.min_chunk_size
                            /\ quality.quality_score > 20))

\* structure-aware chunking returned one section and dropped another, and
\* less than 90% of the lines are left
C23_Witness ==
    /\ Chunked /\ chunking.tried = << "structure" >>
    /\ Len(chunking.sections) >= 2
    /\ \A i \in DOMAIN chunking.sections :
          TextLen(chunking.sections[i]) <= 4 * chunking.effective_size
    /\ chunking.chunks # << >>
    /\ Len(chunking.chunks) < Len(chunking.sections)
    /\ 10 * Cardinality(Covered) < 9 * Len(NonBlank(chunking.text))

\* C24: the strategies are called in the order structure-aware, token
\* window, character count; with preserve_structure the first one called is
\* structure-aware, and its chunks are final when it yields any; the token
\* window is called when structure-aware chunking yielded nothing and a
\* tokenizer is loaded; the character splitter is called only when there is
\* no tokenizer or token chunking failed
C24_StrategiesInFixedOrder ==
    LET tried == chunking.tried
        nothing == chunking.structured_chunks = << >>
    IN  chunking.pc \notin {"None", "call"} =>
          /\ tried \in { << >>, << "structure" >>, << "token" >>,
                         << "character" >>, << "structure", "token" >>,
                         << "structure", "character" >>,
                         << "token", "character" >>,
                         << "structure", "token", "character" >> }
          /\ chunking.preserve_structure /\ tried # << >> =>
                tried[1] = "structure"
          /\ "structure" \in Range(tried) => chunking.preserve_structure
          /\ Chunked /\ ~nothing => tried = << "structure" >>
          /\ Chunked /\ chunking.text # EmptyText /\ nothing
                /\ chunking.tokenizer # "None" => "token" \in Range(tried)
          /\ "token" \in Range(tried) => nothing
          /\ "character" \in Range(tried) =>
                /\ nothing
                /\ chunking.tokenizer \in {"None", "encode raises", "raises"}
                /\ chunking.tokenizer # "None" => "token" \in Range(tried)

\* all three strategies were called, one after the other
C24_Witness ==
    /\ Chunked
    /\ chunking.tried = << "structure", "token", "character" >>

\* the text scored below 50
LowQuality == chunking.quality_score \in 0..49

\* C25: for a text scoring below 50 the chunk size and the overlap used are
\* both strictly smaller than the requested ones, whatever was requested;
\* otherwise both are the requested ones
C25_LowQualityShrinksBoth ==
    chunking.pc \notin {"None", "call"} /\ chunking.text # EmptyText =>
       IF LowQuality
       THEN /\ chunking.effective_size < chunking.chunk_size
            /\ chunking.effective_overlap < chunking.chunk_overlap
       ELSE /\ chunking.effective_size = chunking.chunk_size
            /\ chunking.effective_overlap = chunking.chunk_overlap

\* C25, as the code has it: for a text scoring below 50 the chunk size used
\* is the requested one capped at 500 and the overlap the requested one
\* capped at 50; otherwise both are the requested ones
C25_LowQualityCapsBoth ==
    chunking.pc \notin {"None", "call"} /\ chunking.text # EmptyText =>
       IF LowQuality
       THEN /\ chunking.effective_size
                  = (IF chunking.chunk_size > 500 THEN 500
                     ELSE chunking.chunk_size)
            /\ chunking.effective_overlap
                  = (IF chunking.chunk_overlap > 50 THEN 50
                     ELSE chunking.chunk_overlap)
       ELSE /\ chunking.effective_size = chunking.chunk_size
            /\ chunking.effective_overlap = chunking.chunk_overlap

\* a low-scoring text chunked with the default sizes
C25_Witness ==
    /\ Chunked /\ LowQuality
    /\ chunking.chunk_size = 800 /\ chunking.effective_size = 500
    /\ chunking.chunk_overlap = 100 /\ chunking.effective_overlap = 50

\* C29: two runs share no mutable state: as long as a job is on record as
\* completed, with its output file, the file is there and holds what that
\* job wrote, and a download for the job sends it; no other job has
\* overwritten or deleted it, whatever the interleaving and the output
\* filenames
C29_RunsShareNoState ==
    \A job_id \in DOMAIN jobs :
       jobs[job_id].status = "completed"
             /\ jobs[job_id].output_file # NoPath =>
          download_result(job_id) = << 200, job_id >>

\* the run is past line 77: chunk_text has returned
PastChunking == run.pc \notin {"None", "call", "scraped", "cleaned"}

\* C30: when chunk_text returns no chunk, run_pipeline raises there, with
\* 'No chunks produced from the page content.': no vector index is built,
\* generate_qa is not called and no export is written
C30_EmptyChunkSetIsFatal ==
    (PastChunking /\ run.error # "ScraperError" /\ run.chunks = << >>) =>
       /\ run.pc = "raised"
       /\ run.error = NoChunksProduced
       /\ ~run.index_built
       /\ ~run.generator_called
       /\ run.path = NoPath

\* a page was scraped and cleaned to a text that is not empty, every one
\* of its chunks was dropped, and the run has ended
C30_Witness ==
    /\ run.pc = "raised"
    /\ run.error = NoChunksProduced
    /\ run.cleaned # EmptyText
    /\ run.chunks = << >>

\* the chunk passes the tests of _validate_and_filter_chunks: it has
\* min_chunk_size characters and scores above 20
PassesValidation(chunk) ==
    /\ TextLen(chunk) >= chunking.min_chunk_size
    /\ analyze_content_quality(Measures(chunk)).quality_score > 20

\* C37: when structure-aware splitting produced a chunk, enhanced_chunk_text
\* returns the chunks of it that pass validation, in their order, and has
\* called neither the token nor the character strategy, also when no chunk
\* passes
C37_StructuredChunksAreFinal ==
    Chunked /\ chunking.structured_chunks # << >> =>
       /\ chunking.tried = << "structure" >>
       /\ chunking.chunks
             = SelectSeq(chunking.structured_chunks, PassesValidation)

\* structure-aware splitting produced chunks, validation dropped every one
\* of them, and the empty list was returned with no fallback called
C37_Witness ==
    /\ Chunked
    /\ chunking.structured_chunks # << >>
    /\ chunking.chunks = << >>
    /\ chunking.tried = << "structure" >>

\* C36: in a crawl a page whose fetch failed stays in the visited set, so
\* that it counts against max_pages; it gave no text and no links; the
\* aggregate never holds more texts than there are visited URLs; and the
\* page is not fetched again
C36_FailedPageCountsAndIsNotRetried ==
    /\ [](Crawling =>
            /\ fetch_errors \subseteq visited
            /\ fetch_errors \cap Range(aggregated_texts) = {}
            /\ Len(aggregated_texts) <= Cardinality(visited))
    /\ [][ (pc = "loop" /\ fetch_errors' # fetch_errors)
           => /\ frontier' = Tail(frontier)
              /\ aggregated_texts' = aggregated_texts ]_vars
    /\ [][ (pc = "loop" /\ requested' # requested)
           => \A u \in fetch_errors :
                 Normalize(u) # Normalize(Head(frontier).url) ]_vars

\* C32: with validate_quality the seed content that is returned, or that
\* stands first in the crawl aggregate, has at least min_content_length
\* characters when stripped, holds no failure phrase, and its most common
\* word makes up at most half of its words, whichever strategy produced it
C32_SeedContentPassedValidation ==
    validate_quality /\ pc \in {"resolved", "loop", "done"}
                     /\ IsSet(main_content) =>
       /\ main_content.striplen >= MinContentLength
       /\ ~main_content.indicator
       /\ 2 * main_content.most_common_freq
             <= Max(main_content.word_count, 1)
       /\ passed # {}
       /\ aggregated_texts # << >> => aggregated_texts[1] = SeedUrl

\* the call returned validated content that the last strategy, the plain
\* HTTP fetch, produced after every earlier attempt had failed or had been
\* rejected
C32_Witness ==
    /\ pc = "done" /\ validate_quality
    /\ passed = {"requests"}
    /\ Len(attempts) >= 4
    /\ main_content.striplen = MinContentLength

\* the statuses a job ends in
Terminal == {"completed", "failed"}

\* a job starts as pending, and its status moves only from pending to
\* running and from running to completed or to failed
StatusMoves ==
    [][ \A job_id \in DOMAIN jobs' :
          IF job_id \notin DOMAIN jobs
          THEN jobs'[job_id].status = "pending"
          ELSE \/ jobs'[job_id].status = jobs[job_id].status
               \/ /\ jobs[job_id].status = "pending"
                  /\ jobs'[job_id].status = "running"
               \/ /\ jobs[job_id].status = "running"
                  /\ jobs'[job_id].status \in Terminal ]_vars

\* a download is answered with the file only for a completed job
DownloadOnlyCompleted ==
    \A job_id \in DOMAIN jobs :
       download_result(job_id)[1] = 200 => jobs[job_id].status = "completed"

\* C38: the status of a job moves pending, running, then completed or
\* failed, and stays there; completed_at is set exactly when the status is
\* completed or failed; a result is downloaded only for a completed job
C38_StatusLifecycle ==
    /\ StatusMoves
    /\ [](\A job_id \in DOMAIN jobs :
             jobs[job_id].completed_at = "set"
                <=> jobs[job_id].status \in Terminal)
    /\ []DownloadOnlyCompleted

\* C38, as the code has it: completed_at is set only in the two terminal
\* states, as the last assignment of the task, so a job is completed or
\* failed for a while with completed_at unset, and it stays unset when the
\* task has ended by then
C38_StatusLifecycleCompletedAtLast ==
    /\ StatusMoves
    /\ [](\A job_id \in DOMAIN jobs :
             /\ jobs[job_id].completed_at = "set"
                   => /\ jobs[job_id].status \in Terminal
                      /\ tasks[job_id].pc = "done"
             /\ jobs[job_id].status \in Terminal /\ tasks[job_id].pc = "done"
                   => jobs[job_id].completed_at = "set")
    /\ []DownloadOnlyCompleted

\* one job completed with completed_at set and its file ready to download,
\* another failed with completed_at set
C38_Witness ==
    \E a \in DOMAIN jobs, b \in DOMAIN jobs :
       /\ jobs[a].status = "completed" /\ jobs[a].completed_at = "set"
       /\ download_result(a)[1] = 200
       /\ jobs[b].status = "failed" /\ jobs[b].completed_at = "set"

\* C39: run_pipeline_job never ends with an unhandled exception, whenever
\* delete_job runs for its job, and a deleted job does not come back into
\* jobs
C39_TaskNeverCrashes ==
    /\ [](\A job_id \in DOMAIN tasks : tasks[job_id].pc # "crashed")
    /\ [][ \A job_id \in DOMAIN tasks :
             job_id \notin DOMAIN jobs => job_id \notin DOMAIN jobs' ]_vars

\* a valid item of the input: its stripped question and answer are not empty
ValidItem(item) ==
    item.question # << >> /\ StrippedLen(item.expected_response) > 0

\* C31: the list _deduplicate_questions returns holds no two items with
\* similar questions, is never longer than the input, and for every valid
\* item of the input holds an item with the same or a similar question whose
\* answer is at least as long
C31_NoSimilarQuestionsRemain ==
    dedup.pc = "done" =>
        LET result == dedup.deduplicated
        IN  /\ \A i, j \in 1..Len(result) :
                  i < j => ~_questions_similar(result[i].question,
                                               result[j].question)
            /\ Len(result) <= Len(dedup.items)
            /\ \A k \in 1..Len(dedup.items) :
                  ValidItem(dedup.items[k]) =>
                      \E i \in 1..Len(result) :
                          /\ \/ result[i].question = dedup.items[k].question
                             \/ _questions_similar(result[i].question,
                                                   dedup.items[k].question)
                          /\ StrippedLen(result[i].expected_response)
                               >= StrippedLen(dedup.items[k].expected_response)

\* the parts of C31 taken apart
C31_NoSimilarPair ==
    dedup.pc = "done" =>
        \A i, j \in 1..Len(dedup.deduplicated) :
            i < j => ~_questions_similar(dedup.deduplicated[i].question,
                                         dedup.deduplicated[j].question)
C31_NeverLonger ==
    dedup.pc = "done" => Len(dedup.deduplicated) <= Len(dedup.items)

\* C33: _token_chunk_piece returns for every number of tokens, every
\* chunk_size >= 1 and every chunk_overlap >= 0; each pass that stays in the
\* loop moves start on by chunk_size - chunk_overlap, and at the return the
\* windows have covered the last token
C33_SlidingWindowTerminates ==
    /\ <>(window.pc = "done")
    /\ [][window.pc = "loop" /\ window'.pc = "loop" =>
            window'.start
              = window.start + window.chunk_size - window.chunk_overlap]_vars
    /\ [](window.pc = "done" /\ window.encoded
            => window.covered = window.n)

\* the parts of C33 taken apart, and the case chunk_overlap < chunk_size
C33_Terminates == <>(window.pc = "done")
C33_Stride ==
    [][window.pc = "loop" /\ window'.pc = "loop" =>
         window'.start
           = window.start + window.chunk_size - window.chunk_overlap]_vars
C33_TerminatesWhenOverlapSmaller ==
    (window.chunk_overlap < window.chunk_size) => <>(window.pc = "done")
C33_StrideWhenOverlapSmaller ==
    [][window.chunk_overlap < window.chunk_size
         /\ window.pc = "loop" /\ window'.pc = "loop" =>
         window'.start
           = window.start + window.chunk_size - window.chunk_overlap]_vars
C33_CoversLastToken ==
    [](window.pc = "done" /\ window.encoded => window.covered = window.n)

\* C34: whenever _select_model_and_prompt returns the primary model, the
\* estimated tokens of the whole prompt are at most TOKEN_LIMIT_PRIMARY, and
\* PROMPT_OVERHEAD_STANDARD is no less than the estimated tokens of the
\* standard template
C34_PrimaryPromptWithinCeiling ==
    decision.via = "select" /\ decision.model = DEFAULT_MODEL =>
        /\ decision.final_tokens <= TOKEN_LIMIT_PRIMARY
        /\ _count_tokens(TemplateLen(decision.template))
             <= PROMPT_OVERHEAD_STANDARD

\* the parts of C34 taken apart, and what the test of line 308 does bound
C34_EstimateWithinCeiling ==
    decision.via = "select" /\ decision.model = DEFAULT_MODEL =>
        decision.final_tokens <= TOKEN_LIMIT_PRIMARY
C34_OverheadCoversTemplate ==
    decision.via = "select" /\ decision.model = DEFAULT_MODEL =>
        _count_tokens(TemplateLen(decision.template))
          <= PROMPT_OVERHEAD_STANDARD
C34_BudgetedSumWithinCeiling ==
    decision.via = "select" /\ decision.model = DEFAULT_MODEL =>
        decision.context_tokens + decision.query_tokens
          + PROMPT_OVERHEAD_STANDARD <= TOKEN_LIMIT_PRIMARY

\* the context of the call was cut to fit the token ceiling
ContextWasTruncated == sending.prepared.kept # Full(context_len)

\* C35: every prompt generate_qa sends, in each of its three attempts,
\* embeds the budget-checked context of the first one; once the context was
\* truncated no later attempt sends the whole context; and the estimated
\* input tokens of every prompt sent are at most TOKEN_LIMIT_FALLBACK
C35_AttemptsShareCheckedContext ==
    sending.pc # "None" =>
        \A i \in 1..Len(sending.sent) :
            /\ sending.sent[i].kept = sending.prepared.kept
            /\ ContextWasTruncated =>
                   sending.sent[i].kept # Full(context_len)
            /\ sending.sent[i].input_tokens <= TOKEN_LIMIT_FALLBACK

\* the parts of C35 taken apart
C35_SameContext ==
    sending.pc # "None" =>
        \A i \in 1..Len(sending.sent) :
            sending.sent[i].kept = sending.prepared.kept
C35_JsonAttemptsSameContext ==
    sending.pc # "None" =>
        \A i \in 1..Len(sending.sent) :
            sending.sent[i].template # "text" =>
                sending.sent[i].kept = sending.prepared.kept
C35_WithinCeiling ==
    sending.pc # "None" =>
        \A i \in 1..Len(sending.sent) :
            sending.sent[i].input_tokens <= TOKEN_LIMIT_FALLBACK
C35_WithinCeilingShortQuery ==
    sending.pc # "None" /\ query_len <= 100 =>
        \A i \in 1..Len(sending.sent) :
            sending.sent[i].template # "text" =>
                sending.sent[i].input_tokens <= TOKEN_LIMIT_FALLBACK
====
